---- MODULE Spec2Model ----
(***************************************************************************)
(* Model of the OncoPurpose backend (immortal71/Project-O3).               *)
(*                                                                         *)
(*   - backend/redis_cache.py   RedisCache: the optional Redis client      *)
(*   - backend/rate_limiter.py  RateLimiter, RateLimitMiddleware           *)
(*   - backend/security.py      create_access_token, create_refresh_token  *)
(*   - backend/auth.py          login, refresh_token, logout, /me          *)
(*   - backend/dependencies.py  get_current_user                           *)
(*   - backend/pubmed.py, clinicaltrials.py, drugbank.py  the fetchers     *)
(*   - backend/database_api.py  save_generated_output and its listing      *)
(*   - backend/integrated_api.py, data_loader.py  the search endpoint      *)
(*   - backend/confidence_scorer.py  ConfidenceScorer                      *)
(*   - backend/demo_api.py, demo_dataset.py  the demo search               *)
(*                                                                         *)
(* The specifications share the variables:                                 *)
(*   SpecRate   direct calls of RateLimiter.check_rate_limit               *)
(*   SpecMw     requests through RateLimitMiddleware.dispatch              *)
(*   SpecAuth   the authentication endpoints                               *)
(*   SpecCache  direct calls of the methods of RedisCache                  *)
(*   SpecFetch  concurrent calls of the fetcher methods                    *)
(*   SpecParse  a fetcher method parsing one provider response             *)
(*   SpecStore  requests to /db/output and /db/outputs                     *)
(*   SpecSearch requests to /api/v1/search over a loaded corpus            *)
(*   SpecScore  calls of the scorer on one evidence bundle                 *)
(*   SpecLookup requests to /drug/{name} and /mechanism/{moa}              *)
(*   SpecQuery  queries sent to the demo and the integrated search         *)
(*   SpecRefresh  two handlers serving refresh requests concurrently       *)
(*   SpecAnon   unauthenticated requests through the middleware            *)
(*   SpecCancer searches over hero cases with cancers as list or string    *)
(*   SpecSession  tasks sharing one fetcher service instance               *)
(*   SpecMore   the scorer on a bundle and on one with more evidence       *)
(***************************************************************************)
EXTENDS Integers, Sequences, FiniteSets, TLC

(***************************************************************************)
(* Bounds of the model.                                                    *)
(***************************************************************************)
\* Requests started in one behaviour.
MaxReq == 3
\* Clock steps in one behaviour.
MaxTicks == 2
\* requests_per_hour of the Basic tier, scaled down (the source has 100).
BasicPerHour == 2
\* requests_per_hour of the Professional tier, scaled down (the source has 1000).
ProPerHour == 3
\* Records in one provider response.
MaxRecords == 3
\* batch_size of PubMedService.fetch_paper_details, scaled down (the source
\* has 100).
PubMedBatchSize == 2
\* POST /db/output requests
MaxOutputs == 3
\* Records of the hero-cases file and of the Broad Hub file
MaxHero == 2
MaxDrugs == 1
\* Sources and pathways of an evidence bundle
MaxSources == 3
MaxPathways == 4
\* The sessions a shared fetcher service creates
MaxSessions == 4
\* Calls of fetcher methods started in one behaviour.
MaxTasks == 6
\* Direct calls of RedisCache methods in one behaviour.
MaxCacheCalls == 2
\* Requests to the authentication endpoints in one behaviour.
MaxAuthReq == 4
\* Identifiers uuid4 hands out in one behaviour (a login or a refresh takes two).
MaxJti == 6

(***************************************************************************)
(* Program constants.                                                      *)
(***************************************************************************)
\* RateLimitConfig.window_size
WindowSize == 3600
\* requests_per_hour of the Enterprise tier: 0 means unlimited
EnterprisePerHour == 0
\* CacheManager.ttls["medium"]
MediumTtl == 3600
\* asyncio.Semaphore(n) of PubMedService, ClinicalTrialsService, DrugBankService
PubMedPermits == 3
ClinicalTrialsPermits == 5
DrugBankPermits == 2
\* settings.ACCESS_TOKEN_EXPIRE_MINUTES
AccessTokenExpireMinutes == 15
\* settings.REFRESH_TOKEN_EXPIRE_DAYS
RefreshTokenExpireDays == 7

\* The request handlers that run concurrently (asyncio tasks): a pair.
Procs == {1, 2}

NoUser == "none"
NoId == "none"
\* Users of the database (all active), with their subscription_tier column.
Users == {"u1", "u2", "u3"}
SubscriptionTier(u) ==
    CASE u = "u1" -> "basic"
      [] u = "u2" -> "professional"
      [] OTHER    -> "enterprise"

\* RateLimitTier
Tiers == {"basic", "professional", "enterprise"}

\* RATE_LIMITS[tier].requests_per_hour
RequestsPerHour(tier) ==
    CASE tier = "basic"        -> BasicPerHour
      [] tier = "professional" -> ProPerHour
      [] OTHER                 -> EnterprisePerHour

VARIABLES
    \* ---- the Redis server and the RedisCache client object
    redisUp,        \* the server is reachable
    redisPool,      \* RedisCache.redis is not None
    connected,      \* RedisCache._connected
    serverScript,   \* the server's script cache holds the rate-limit script
    zset,           \* sorted sets: key -> set of [member, score]
    zexp,           \* key -> the server time at which the key expires
    kv,             \* string keys: "refresh:<jti>" -> value
    \* ---- time
    now,            \* seconds, what int(time.time()) reads
    ticks,          \* clock steps taken
    \* ---- RateLimiter
    scripts,        \* RateLimiter.scripts is non-empty
    rq,             \* the requests being handled, one per handler
    nreq,           \* requests started
    admLog,         \* history: admissions granted by the script, per key and time
    \* ---- authentication
    nextJti,        \* uuid4 source: the next fresh identifier
    tokens,         \* the JWTs issued so far (the clients hold them)
    au,             \* the authentication requests being handled
    hist,           \* history of the authentication endpoints
    \* ---- direct calls of RedisCache
    cres,           \* the last call: the method, its arguments, what it returned
    wrote,          \* history: key -> the last set of it that returned True
    link,           \* history: how the last connect() or disconnect() ended
    ncall,          \* calls made
    \* ---- the fetcher services (PubMed, ClinicalTrials.gov, DrugBank)
    loc,            \* place in a fetcher method -> the number of tasks there
    semaphore,      \* service -> free permits of its rate_limiter
    ntask,          \* fetcher calls started
    \* ---- parsing of provider responses
    resp,           \* the records of a provider's response, in order
    parsed,         \* what the fetcher method returned for it
    \* ---- the generated outputs (backend/database_api.py)
    dbUp,           \* the database can be reached
    outputs,        \* table generated_outputs, in insertion order
    sres,           \* the last response of /db/output or /db/outputs
    nsave,          \* POST /db/output requests made
    \* ---- the search endpoint (backend/integrated_api.py, data_loader.py)
    hero_cases,     \* DataLoader.hero_cases, in file order
    broad_drugs,    \* DataLoader.broad_drugs, in file order
    oncology_compounds, \* DataLoader.oncology_compounds
    sq,             \* the last response of GET /api/v1/search
    lk,             \* the last response of /drug/{name} or /mechanism/{moa}
    dm,             \* the last answer to a query of a search endpoint
    \* ---- the confidence scorer (backend/confidence_scorer.py)
    evidence,       \* the evidence bundle given to the scorer
    first,          \* what calculate_confidence returned for it
    again,          \* what a second call returned
    explained,      \* what explain_score returned
    more,           \* the confidence before and after evidence was added
    session,        \* self.session of the shared service: a session, or NoSession
    closed,         \* the sessions that have been closed
    task,           \* per task: inside the `async with` or not, and history
    nsess           \* the sessions created so far

redisVars == <<redisUp, redisPool, connected, serverScript, zset, zexp, kv>>
rateVars  == <<scripts, rq, nreq, admLog>>
authVars  == <<nextJti, tokens, au, hist>>
cacheVars == <<cres, wrote, link, ncall>>
\* The variables of the parts that the rate limiter and the authentication
\* endpoints do not touch.
fetchVars == <<loc, semaphore, ntask>>
parseVars == <<resp, parsed>>
storeVars == <<dbUp, outputs, sres, nsave>>
searchVars ==
    <<hero_cases, broad_drugs, oncology_compounds, sq, lk, dm>>
scoreVars == <<evidence, first, again, explained, more>>
sessVars == <<session, closed, task, nsess>>
extVars == <<cacheVars, fetchVars, parseVars, storeVars, searchVars, scoreVars, sessVars>>
\* What the calls of RedisCache leave alone besides the server and the clock,
\* and what the fetchers leave alone.
coreVars == <<redisVars, now, ticks, rateVars, authVars>>
notCache == <<rateVars, authVars, fetchVars, parseVars, storeVars, searchVars, scoreVars, sessVars>>
notFetch == <<coreVars, cacheVars, parseVars, storeVars, searchVars, scoreVars, sessVars>>
notParse == <<coreVars, cacheVars, fetchVars, storeVars, searchVars, scoreVars, sessVars>>
notStore == <<coreVars, cacheVars, fetchVars, parseVars, searchVars, scoreVars, sessVars>>
notSearch == <<coreVars, cacheVars, fetchVars, parseVars, storeVars, scoreVars, sessVars>>
notScore == <<coreVars, cacheVars, fetchVars, parseVars, storeVars, searchVars, sessVars>>
notSess == <<coreVars, cacheVars, fetchVars, parseVars, storeVars, searchVars, scoreVars>>
vars == <<redisVars, now, ticks, rateVars, authVars, extVars>>

(***************************************************************************)
(* RedisCache (backend/redis_cache.py)                                     *)
(***************************************************************************)
\* RedisCache.is_connected
IsConnected == connected /\ redisPool

\* RedisCache.connect: create_redis_pool succeeds iff the server is reachable.
\* A failure leaves the previous pool object in place.
ConnectOk == redisUp
ConnectEffect ==
    /\ connected' = ConnectOk
    /\ redisPool' = (redisPool \/ ConnectOk)

\* A command sent through RedisCache.redis raises when there is no pool object
\* or the server is unreachable.
RedisCallFails == ~redisPool \/ ~redisUp

(***************************************************************************)
(* The Lua script of RateLimiter._load_scripts                             *)
(***************************************************************************)
RateIds == {"id1"}

\* _get_rate_limit_key
RateLimitKey(identifier, tier) == <<tier, identifier>>

\* ZREMRANGEBYSCORE key -inf max : removes the members with score <= max
ZRemRangeByScore(S, max) == {e \in S : e.score > max}

\* ZADD key score member : a sorted set holds a member once; adding a member
\* it already holds only updates the score.
ZAddMutantMulti(S, score, member) ==
    S \cup {[member |-> <<member, Cardinality(S)>>, score |-> score]}
ZAdd(S, score, member) ==
    {e \in S : e.member # member} \cup {[member |-> member, score |-> score]}

\* The script body: evict, count, deny or add.
\* Result: ok/count are the returned pair, set the key's new content,
\* expire tells whether EXPIRE key window ran.
CheckRateLimitScript(S, window, limit, current_time) ==
    LET live == ZRemRangeByScore(S, current_time - window)
        current_count == Cardinality(live)
    IN  IF limit > 0 /\ current_count >= limit
          THEN [ok |-> 0, count |-> current_count, set |-> live, expire |-> FALSE]
          ELSE [ok |-> 1, count |-> current_count + 1,
                set |-> ZAdd(live, current_time, current_time), expire |-> TRUE]

\* What the server holds under a key: an expired key reads as empty.
KeyContent(key) == IF key \in DOMAIN zset /\ now < zexp[key] THEN zset[key] ELSE {}

\* f with key bound to v
Put(f, key, v) == [k \in DOMAIN f \cup {key} |-> IF k = key THEN v ELSE f[k]]
\* f without key
Drop(f, key) == [k \in DOMAIN f \ {key} |-> f[k]]

(***************************************************************************)
(* Requests of the rate limiter                                            *)
(***************************************************************************)
\* via: "api" a direct call of check_rate_limit, "mw" a request in dispatch.
\* path, bearer, host: the request; stateUser: request.state.user;
\* status: the HTTP status of the response.
\* outage, prior, fresh, lastSlot, added, late: history of the check.
IdleRq ==
    [pc |-> "idle", via |-> "none", path |-> <<>>, bearer |-> NoUser,
     host |-> NoId, stateUser |-> NoUser, status |-> 0,
     identifier |-> NoId, tier |-> "basic", cur |-> 0,
     allowed |-> FALSE, outage |-> FALSE, prior |-> 0, fresh |-> FALSE,
     lastSlot |-> FALSE, added |-> FALSE, late |-> FALSE]

\* History: the number of admissions the script granted for key at times in
\* the window (t - WindowSize, t].
AdmittedInWindow(key, t) ==
    LET S == {e \in DOMAIN admLog : e[1] = key /\ e[2] > t - WindowSize /\ e[2] <= t}
        RECURSIVE Sum(_)
        Sum(T) == IF T = {} THEN 0
                  ELSE LET x == CHOOSE y \in T : TRUE IN admLog[x] + Sum(T \ {x})
    IN Sum(S)

\* History: every admission granted for key so far is at least a window old at t.
AllElapsed(key, t) ==
    \A e \in DOMAIN admLog : e[1] = key => e[2] <= t - WindowSize

LogAdmission(key, t) ==
    IF <<key, t>> \in DOMAIN admLog
      THEN [admLog EXCEPT ![<<key, t>>] = @ + 1]
      ELSE admLog @@ (<<key, t>> :> 1)

\* check_rate_limit, lines 105-118: the tier's config, the Enterprise
\* short-circuit, the key and the clock reading; the call then awaits Redis.
CheckStart(p, identifier, tier) ==
    /\ rq[p].pc = "idle"
    /\ \A q \in Procs : q < p => rq[q].pc # "idle"
    /\ nreq < MaxReq
    /\ nreq' = nreq + 1
    /\ IF RequestsPerHour(tier) = 0
         THEN rq' = [rq EXCEPT ![p] = [IdleRq EXCEPT !.pc = "done",
                         !.via = "api",
                         !.identifier = identifier, !.tier = tier,
                         !.allowed = TRUE]]
         ELSE rq' = [rq EXCEPT ![p] = [IdleRq EXCEPT !.pc = "timed",
                         !.via = "api",
                         !.identifier = identifier, !.tier = tier,
                         !.cur = now]]
    /\ UNCHANGED <<redisVars, now, ticks, scripts, admLog, authVars>>
    /\ UNCHANGED extVars

\* History: handler q is in flight for the same key, with a clock reading no
\* later than p's, while the script admits p into the last free slot.
TookLastSlot(p, q, res) ==
    /\ rq[q].pc = "timed"
    /\ RateLimitKey(rq[q].identifier, rq[q].tier) = RateLimitKey(rq[p].identifier, rq[p].tier)
    /\ rq[q].cur <= rq[p].cur
    /\ res.ok # 0
    /\ res.count = RequestsPerHour(rq[p].tier)

\* check_rate_limit, lines 145-153: any exception admits the request.
FailOpenMutantDeny == FALSE
FailOpen == TRUE

\* dispatch, lines 183-205: a denied request is answered 429, an admitted
\* one goes on to call_next. A direct caller just gets the pair back.
AfterCheck(via, is_allowed) == IF via = "mw" /\ is_allowed THEN "next" ELSE "done"
DeniedStatus(via, is_allowed) == IF via = "mw" /\ ~is_allowed THEN 429 ELSE 0

\* check_rate_limit, lines 120-143: load the script when none is loaded, run
\* it with EVALSHA (atomic on the server), read the result.
CheckEval(p) ==
    /\ rq[p].pc = "timed"
    /\ LET r == rq[p]
           key == RateLimitKey(r.identifier, r.tier)
           \* script_load raises on an unreachable server
           loadFails == ~scripts /\ RedisCallFails
           loaded == scripts \/ ~RedisCallFails
           onServer == serverScript \/ (~scripts /\ ~RedisCallFails)
           \* evalsha raises on an unreachable server and on an unknown script
           evalFails == loadFails \/ RedisCallFails \/ ~onServer
           res == CheckRateLimitScript(KeyContent(key), WindowSize,
                                       RequestsPerHour(r.tier), r.cur)
       IN /\ scripts' = loaded
          /\ serverScript' = onServer
          /\ IF evalFails
               THEN /\ rq' = [rq EXCEPT ![p] = [r EXCEPT
                                  !.pc = AfterCheck(r.via, FailOpen),
                                  !.status = DeniedStatus(r.via, FailOpen),
                                  !.allowed = FailOpen, !.outage = TRUE]]
                    /\ UNCHANGED <<zset, zexp, admLog>>
               ELSE /\ rq' = [q \in Procs |->
                              IF q = p
                                THEN [r EXCEPT
                                        !.pc = AfterCheck(r.via, res.ok # 0),
                                        !.status = DeniedStatus(r.via, res.ok # 0),
                                        !.allowed = (res.ok # 0),
                                        !.added = (res.ok # 0),
                                        !.late = (now # r.cur),
                                        !.prior = AdmittedInWindow(key, r.cur),
                                        !.fresh = AllElapsed(key, r.cur)]
                              ELSE IF TookLastSlot(p, q, res)
                                THEN [rq[q] EXCEPT !.lastSlot = TRUE]
                              ELSE rq[q]]
                    /\ zset' = Put(zset, key, res.set)
                    /\ zexp' = IF res.expire THEN Put(zexp, key, now + WindowSize)
                               ELSE zexp
                    /\ admLog' = IF res.ok # 0 THEN LogAdmission(key, r.cur)
                                 ELSE admLog
    /\ UNCHANGED <<redisUp, redisPool, connected, kv, now, ticks, nreq, authVars>>
    /\ UNCHANGED extVars

\* The caller has its answer; the handler is free again.
CheckReturn(p) ==
    /\ rq[p].pc = "done"
    /\ rq' = [rq EXCEPT ![p] = IdleRq]
    /\ UNCHANGED <<redisVars, now, ticks, scripts, nreq, admLog, authVars>>
    /\ UNCHANGED extVars

(***************************************************************************)
(* RedisCache get / set / delete on the string keys                        *)
(***************************************************************************)
\* Python values, as far as the cache tells them apart: the type and the
\* text that str() gives (json.dumps for a dict or a list).
PyStr(text) == [t |-> "str", s |-> text]
PyInt(text) == [t |-> "int", s |-> text]
PyBool(text) == [t |-> "bool", s |-> text]
PyNone == [t |-> "none", s |-> "None"]
PyDict(text) == [t |-> "dict", s |-> text]
PyList(text) == [t |-> "list", s |-> text]
\* A dict holding a value json.dumps cannot encode (a datetime).
NotJsonable == "<datetime>"
\* {"user_id": str(user.id)}
UserIdDict(u) == PyDict("{\"user_id\": \"" \o u \o "\"}")

Nil == PyNone
\* Python truth value
Truthy(v) ==
    ~ \/ v.t = "none"
      \/ v.t = "str" /\ v.s = ""
      \/ v.t = "int" /\ v.s = "0"
      \/ v.t = "bool" /\ v.s = "False"
      \/ v.t = "dict" /\ v.s = "{}"
      \/ v.t = "list" /\ v.s = "[]"

\* f"refresh:{jti}"
RefreshKey(jti) == <<"refresh", jti>>

\* RedisCache.set, lines 95-99: json.dumps for a dict or a list, str() for
\* everything else.
SerializeRaises(value) == value.t \in {"dict", "list"} /\ value.s = NotJsonable
Serialize(value) == value.s

\* The texts of the model that are JSON documents.
JsonIntTexts == {"0", "1", "2", "3", "123", "124"}
JsonObjectTexts == {"{}"} \cup {UserIdDict(u).s : u \in Users}
JsonArrayTexts == {"[]", "[1, 2]"}
IsJson(text) ==
    text \in JsonIntTexts \cup JsonObjectTexts \cup JsonArrayTexts
                \cup {"true", "false", "null"}
\* json.loads
JsonLoads(text) ==
    CASE text \in JsonIntTexts    -> PyInt(text)
      [] text = "true"            -> PyBool("True")
      [] text = "false"           -> PyBool("False")
      [] text = "null"            -> PyNone
      [] text \in JsonObjectTexts -> PyDict(text)
      [] OTHER                    -> PyList(text)

\* RedisCache.get, lines 72-76: json.loads, and the stored text itself when
\* that raises.
Deserialize(text) == IF IsJson(text) THEN JsonLoads(text) ELSE PyStr(text)

\* ttl=None, and every ttl that is false in `if ttl:`
NoTtl == 0
NoExpiry == -1
\* The server holds the key and it has not expired.
KvLive(key) ==
    key \in DOMAIN kv /\ (kv[key].exp = NoExpiry \/ now < kv[key].exp)

\* RedisCache.set: SETEX with a ttl, SET without; True when the command went
\* through. Not connected: False at once; an exception (the server does not
\* answer, json.dumps raises) is caught: False.
CacheSetOk(value) == IsConnected /\ redisUp /\ ~SerializeRaises(value)
CacheSet(key, value, ttl) ==
    IF CacheSetOk(value)
      THEN Put(kv, key, [val |-> Serialize(value),
                         exp |-> IF ttl # NoTtl THEN now + ttl ELSE NoExpiry])
      ELSE kv

\* RedisCache.get: the stored value, None when not connected, on an exception,
\* and for a key that is absent or past its ttl.
CacheGetMutantHit(key) == PyStr("hit")
CacheGet(key) ==
    IF IsConnected /\ redisUp /\ KvLive(key)
      THEN Deserialize(kv[key].val)
      ELSE Nil

\* RedisCache.delete
CacheDeleteMutantKeep(key) == kv
CacheDelete(key) ==
    IF IsConnected /\ redisUp THEN Drop(kv, key) ELSE kv

(***************************************************************************)
(* Tokens (backend/security.py)                                            *)
(***************************************************************************)
\* The users that log in.
AuthUsers == {"u1"}

AccessTtl == 60 * AccessTokenExpireMinutes
RefreshTtl == 60 * 60 * 24 * RefreshTokenExpireDays

\* A JWT: type, sub, jti and exp are its claims. by, sid and clean are
\* history: the endpoint that issued it, the jti of the access token issued
\* with it, and whether Redis stayed reachable while it was issued.
NoTok == [type |-> "none", sub |-> NoUser, jti |-> 0, exp |-> 0,
          by |-> "none", sid |-> 0, clean |-> FALSE]

\* create_access_token(token_data): the payload keeps token_data's jti.
CreateAccessToken(sub, jti, by) ==
    [type |-> "access", sub |-> sub, jti |-> jti, exp |-> now + AccessTtl,
     by |-> by, sid |-> jti, clean |-> FALSE]

\* create_refresh_token(token_data): the payload's jti is replaced by a fresh
\* uuid4 (fresh_jti); data_jti is the one of token_data.
CreateRefreshToken(sub, data_jti, fresh_jti, by) ==
    [type |-> "refresh", sub |-> sub, jti |-> fresh_jti, exp |-> now + RefreshTtl,
     by |-> by, sid |-> data_jti, clean |-> FALSE]

\* create_refresh_token, lines 91-104: refresh:<jti> -> sub is stored when the
\* cache is connected at that moment; ttl = int(expire - utcnow()), one second
\* short of the lifetime.
CrtStore(sub, fresh_jti) ==
    IF IsConnected
      THEN CacheSet(RefreshKey(fresh_jti), PyStr(sub), RefreshTtl - 1)
      ELSE kv

\* decode_token: the payload, None for a token past its exp.
DecodeOk(t) == t.type # "none" /\ now <= t.exp

(***************************************************************************)
(* The authentication endpoints (backend/auth.py)                          *)
(***************************************************************************)
\* op: the endpoint; tok: the token presented; user, jti, rjti: locals of the
\* handler; newTok: the tokens of the response; status: the HTTP status.
\* The other fields are history. calm: Redis has been reachable since the
\* request started. afterRot, afterRotCalm: the token presented had been
\* rotated by an earlier refresh (one that was calm). afterAnyOut, afterOut:
\* a logout of the token's session had been requested (had succeeded, calm,
\* with the session's access token). afterOutTok: the token presented had
\* been used in a logout that succeeded. first: the token had not been
\* presented to refresh or logout before. contended: another request
\* presenting the same token was in progress at the same time.
IdleAu ==
    [pc |-> "idle", op |-> "none", tok |-> NoTok, user |-> NoUser,
     jti |-> 0, rjti |-> 0, status |-> 0, newTok |-> {},
     calm |-> FALSE, afterRot |-> FALSE, afterRotCalm |-> FALSE,
     afterAnyOut |-> FALSE, afterOut |-> FALSE, afterOutTok |-> FALSE,
     first |-> FALSE, contended |-> FALSE]

AuthStartable(p) ==
    /\ au[p].pc = "idle"
    /\ \A q \in Procs : q < p => au[q].pc # "idle"
    /\ nreq < MaxAuthReq

\* History: a request presenting token t starts in handler p.
Presenting(p, op, t) ==
    [IdleAu EXCEPT !.op = op, !.tok = t, !.user = t.sub,
        !.calm = redisUp,
        !.afterRot = (t.jti \in hist.rotated),
        !.afterRotCalm = (t.jti \in hist.rotatedCalm),
        !.afterAnyOut = (t.sid \in hist.loggedOutAny),
        !.afterOut = (t.sid \in hist.loggedOut),
        !.afterOutTok = (t.jti \in hist.loggedOutTok),
        !.first = (t.jti \notin hist.presented),
        !.contended = (\E q \in Procs \ {p} :
                          au[q].pc # "idle" /\ au[q].tok.jti = t.jti)]
\* History: the handlers in flight with the same token learn of the newcomer.
Contend(p, t, mine) ==
    [q \in Procs |->
        IF q = p THEN mine
        ELSE IF au[q].pc # "idle" /\ au[q].tok.jti = t.jti
          THEN [au[q] EXCEPT !.contended = TRUE]
        ELSE au[q]]

\* The response of a handler that issued tokens.
Issued(r) ==
    {[CreateAccessToken(r.user, r.jti, r.op) EXCEPT !.clean = r.calm],
     [CreateRefreshToken(r.user, r.jti, r.rjti, r.op) EXCEPT !.clean = r.calm]}

\* login, lines 148-161: after authenticate_user and the commit, a uuid4 jti,
\* the access token and create_refresh_token (with its own uuid4 and its
\* write to the cache).
LoginStart(p, u) ==
    /\ AuthStartable(p)
    /\ nextJti + 1 <= MaxJti
    /\ nreq' = nreq + 1
    /\ nextJti' = nextJti + 2
    /\ kv' = CrtStore(u, nextJti + 1)
    /\ au' = [au EXCEPT ![p] = [IdleAu EXCEPT !.pc = "connect", !.op = "login",
                !.user = u, !.jti = nextJti, !.rjti = nextJti + 1,
                !.calm = redisUp]]
    /\ UNCHANGED <<redisUp, redisPool, connected, serverScript, zset, zexp,
                   now, ticks, scripts, rq, admLog, tokens, hist>>
    /\ UNCHANGED extVars

\* login, line 167: redis_cache.connect(); when it fails the tokens are
\* returned without the record of line 169.
LoginConnect(p) ==
    /\ au[p].pc = "connect" /\ au[p].op = "login"
    /\ ConnectEffect
    /\ au' = [au EXCEPT ![p] =
                IF ConnectOk THEN [@ EXCEPT !.pc = "store"]
                ELSE [@ EXCEPT !.pc = "done", !.status = 200, !.newTok = Issued(au[p])]]
    /\ UNCHANGED <<redisUp, serverScript, zset, zexp, kv, now, ticks, rateVars,
                   nextJti, tokens, hist>>
    /\ UNCHANGED extVars

\* login, line 169: refresh:<jti of token_data> -> {"user_id": ...}
LoginStore(p) ==
    /\ au[p].pc = "store" /\ au[p].op = "login"
    /\ kv' = CacheSet(RefreshKey(au[p].jti), UserIdDict(au[p].user), RefreshTtl)
    /\ au' = [au EXCEPT ![p] = [@ EXCEPT !.pc = "done", !.status = 200,
                                  !.newTok = Issued(au[p])]]
    /\ UNCHANGED <<redisUp, redisPool, connected, serverScript, zset, zexp,
                   now, ticks, rateVars, nextJti, tokens, hist>>
    /\ UNCHANGED extVars

\* refresh_token, lines 231-264: decode and the type test (401), the user,
\* then redis_cache.connect(). When connect() returns False the if-block is
\* skipped without an exception, access_token and refresh_token are never
\* bound, and building the response raises UnboundLocalError: a 500.
RefreshStart(p, t) ==
    /\ AuthStartable(p)
    /\ t \in tokens
    /\ nreq' = nreq + 1
    /\ hist' = [hist EXCEPT !.presented = @ \cup {t.jti}]
    /\ LET mine == Presenting(p, "refresh", t)
       IN IF ~DecodeOk(t) \/ t.type # "refresh"
            THEN /\ au' = Contend(p, t, [mine EXCEPT !.pc = "done", !.status = 401])
                 /\ UNCHANGED <<connected, redisPool>>
            ELSE /\ ConnectEffect
                 /\ au' = Contend(p, t,
                            IF ConnectOk THEN [mine EXCEPT !.pc = "get"]
                            ELSE [mine EXCEPT !.pc = "done", !.status = 500])
    /\ UNCHANGED <<redisUp, serverScript, zset, zexp, kv, now, ticks, scripts, rq,
                   admLog, nextJti, tokens>>
    /\ UNCHANGED extVars

\* refresh_token, lines 265-270: the record of the presented jti; 401 without.
RefreshGet(p) ==
    /\ au[p].pc = "get"
    /\ au' = [au EXCEPT ![p] =
                IF ~Truthy(CacheGet(RefreshKey(@.tok.jti)))
                  THEN [@ EXCEPT !.pc = "done", !.status = 401]
                  ELSE [@ EXCEPT !.pc = "delete"]]
    /\ UNCHANGED <<redisVars, now, ticks, rateVars, nextJti, tokens, hist>>
    /\ UNCHANGED extVars

\* refresh_token, line 272: delete the presented jti (the result is ignored).
RefreshDelete(p) ==
    /\ au[p].pc = "delete" /\ au[p].op = "refresh"
    /\ kv' = CacheDelete(RefreshKey(au[p].tok.jti))
    /\ au' = [au EXCEPT ![p] = [@ EXCEPT !.pc = "issue"]]
    /\ UNCHANGED <<redisUp, redisPool, connected, serverScript, zset, zexp,
                   now, ticks, rateVars, nextJti, tokens, hist>>
    /\ UNCHANGED extVars

\* refresh_token, lines 273-283: new_jti, the access token and
\* create_refresh_token (with its own uuid4 and its write to the cache).
RefreshIssue(p) ==
    /\ au[p].pc = "issue"
    /\ nextJti + 1 <= MaxJti
    /\ nextJti' = nextJti + 2
    /\ kv' = CrtStore(au[p].user, nextJti + 1)
    /\ au' = [au EXCEPT ![p] = [@ EXCEPT !.pc = "store", !.jti = nextJti,
                                  !.rjti = nextJti + 1]]
    /\ UNCHANGED <<redisUp, redisPool, connected, serverScript, zset, zexp,
                   now, ticks, rateVars, tokens, hist>>
    /\ UNCHANGED extVars

\* refresh_token, lines 284-319: refresh:<new_jti> -> {"user_id": ...}, then
\* the response with the two new tokens.
RefreshStore(p) ==
    /\ au[p].pc = "store" /\ au[p].op = "refresh"
    /\ kv' = CacheSet(RefreshKey(au[p].jti), UserIdDict(au[p].user), RefreshTtl)
    /\ au' = [au EXCEPT ![p] = [@ EXCEPT !.pc = "done", !.status = 200,
                                  !.newTok = Issued(au[p])]]
    /\ UNCHANGED <<redisUp, redisPool, connected, serverScript, zset, zexp,
                   now, ticks, rateVars, nextJti, tokens, hist>>
    /\ UNCHANGED extVars

\* get_current_user (dependencies.py): a bearer token that decodes, with a
\* sub of an active user, authenticates; its type is not looked at.
GetCurrentUserOk(t) == DecodeOk(t) /\ t.sub \in Users

\* logout, lines 322-342: get_current_user, then the jti of the bearer token
\* and redis_cache.connect().
LogoutStart(p, t) ==
    /\ AuthStartable(p)
    /\ t \in tokens
    /\ nreq' = nreq + 1
    /\ hist' = [hist EXCEPT !.presented = @ \cup {t.jti}]
    /\ LET mine == Presenting(p, "logout", t)
       IN IF ~GetCurrentUserOk(t)
            THEN /\ au' = Contend(p, t, [mine EXCEPT !.pc = "done", !.status = 401])
                 /\ UNCHANGED <<connected, redisPool>>
            ELSE /\ ConnectEffect
                 /\ au' = Contend(p, t,
                            IF ConnectOk THEN [mine EXCEPT !.pc = "delete"]
                            ELSE [mine EXCEPT !.pc = "done", !.status = 200])
    /\ UNCHANGED <<redisUp, serverScript, zset, zexp, kv, now, ticks, scripts, rq,
                   admLog, nextJti, tokens>>
    /\ UNCHANGED extVars

\* logout, lines 343-347: delete refresh:<jti of the bearer token>.
LogoutDelete(p) ==
    /\ au[p].pc = "delete" /\ au[p].op = "logout"
    /\ kv' = CacheDelete(RefreshKey(au[p].tok.jti))
    /\ au' = [au EXCEPT ![p] = [@ EXCEPT !.pc = "done", !.status = 200]]
    /\ UNCHANGED <<redisUp, redisPool, connected, serverScript, zset, zexp,
                   now, ticks, rateVars, nextJti, tokens, hist>>
    /\ UNCHANGED extVars

\* GET /auth/me: get_current_user and the profile.
Me(p, t) ==
    /\ AuthStartable(p)
    /\ t \in tokens
    /\ nreq' = nreq + 1
    /\ au' = [au EXCEPT ![p] = [Presenting(p, "me", t) EXCEPT !.pc = "done",
                !.status = IF GetCurrentUserOk(t) THEN 200 ELSE 401]]
    /\ UNCHANGED <<redisVars, now, ticks, scripts, rq, admLog, nextJti, tokens, hist>>
    /\ UNCHANGED extVars

\* The response reaches the client, which now holds the tokens in it.
\* History: what the finished request established.
AuthReturn(p) ==
    /\ au[p].pc = "done"
    /\ tokens' = tokens \cup au[p].newTok
    /\ LET r == au[p]
           ok == r.status = 200
       IN hist' = [hist EXCEPT
            !.rotated = IF r.op = "refresh" /\ ok THEN @ \cup {r.tok.jti} ELSE @,
            !.rotatedCalm = IF r.op = "refresh" /\ ok /\ r.calm
                              THEN @ \cup {r.tok.jti} ELSE @,
            !.replayed = IF r.op = "refresh" /\ r.afterRotCalm /\ r.status = 401
                           THEN @ \cup {r.tok.jti} ELSE @,
            !.loggedOutAny = IF r.op = "logout" THEN @ \cup {r.tok.sid} ELSE @,
            !.loggedOut = IF r.op = "logout" /\ ok /\ r.calm /\ r.tok.type = "access"
                            THEN @ \cup {r.tok.sid} ELSE @,
            !.loggedOutTok = IF r.op = "logout" /\ ok /\ r.calm
                               THEN @ \cup {r.tok.jti} ELSE @]
    /\ au' = [au EXCEPT ![p] = IdleAu]
    /\ UNCHANGED <<redisVars, now, ticks, rateVars, nextJti>>
    /\ UNCHANGED extVars

(***************************************************************************)
(* The other methods of RedisCache, and direct calls of all of them        *)
(***************************************************************************)
\* RedisCache.delete returns result > 0
CacheDeleteRet(key) == IsConnected /\ redisUp /\ KvLive(key)

\* RedisCache.exists
CacheExistsMutantNoGuard(key) == KvLive(key)
CacheExists(key) == IsConnected /\ redisUp /\ KvLive(key)

\* RedisCache.ttl: TTL answers -2 for no key and -1 for a key without expiry
CacheTtl(key) ==
    IF IsConnected /\ redisUp
      THEN IF ~KvLive(key) THEN -2
           ELSE IF kv[key].exp = NoExpiry THEN -1
           ELSE kv[key].exp - now
      ELSE -2

\* INCR by 1 on the texts of the model
IncrText(text) ==
    CASE text = "0" -> "1" [] text = "1" -> "2" [] text = "2" -> "3"
      [] OTHER -> "124"
\* RedisCache.increment(key): the new number; None when not connected and
\* when the server refuses (the value is not an integer) or is unreachable.
CacheIncrementOk(key) ==
    IsConnected /\ redisUp /\ (KvLive(key) => kv[key].val \in {"0", "1", "2", "123"})
CacheIncrement(key) ==
    IF CacheIncrementOk(key)
      THEN IF KvLive(key)
             THEN Put(kv, key, [kv[key] EXCEPT !.val = IncrText(@)])
             ELSE Put(kv, key, [val |-> "1", exp |-> NoExpiry])
      ELSE kv
CacheIncrementRet(key) ==
    IF CacheIncrementOk(key)
      THEN PyInt(IF KvLive(key) THEN IncrText(kv[key].val) ELSE "1")
      ELSE Nil

\* KEYS pattern, for the patterns "*" and a literal key
Matches(pattern, key) == pattern = "*" \/ pattern = key
\* RedisCache.get_keys
CacheGetKeys(pattern) ==
    IF IsConnected /\ redisUp
      THEN {k \in DOMAIN kv : KvLive(k) /\ Matches(pattern, k)}
      ELSE {}
\* RedisCache.clear_pattern: get_keys, then one DEL of all of them
CacheClearPattern(pattern) ==
    [k \in DOMAIN kv \ CacheGetKeys(pattern) |-> kv[k]]
CacheClearPatternRet(pattern) == Cardinality(CacheGetKeys(pattern))

\* RedisCache.health_check
CacheHealthCheck == IsConnected /\ redisUp

\* The arguments of the calls.
CacheKeys == {"k1"}
CacheValues ==
    {PyStr("abc"), PyStr("123"), PyInt("123"), UserIdDict("u1"),
     PyDict(NotJsonable)}
CacheTtls == {NoTtl, 1, MediumTtl}
CachePatterns == {"*", "k2"}

\* op, key, ret: the method, its key or pattern, the value returned.
\* at, linkAt, isConnected, reached: history, read when the call was made:
\* the time, link, the is_connected property, and whether the server could
\* be reached through the object.
NoCall ==
    [op |-> "none", key |-> "", ret |-> Nil, at |-> 0, linkAt |-> "never",
     isConnected |-> FALSE, reached |-> FALSE]
Call(op, key, ret) ==
    [op |-> op, key |-> key, ret |-> ret, at |-> now, linkAt |-> link,
     isConnected |-> IsConnected, reached |-> IsConnected /\ redisUp]
CallStartable == ncall < MaxCacheCalls
CallFrame ==
    /\ ncall' = ncall + 1
    /\ UNCHANGED <<redisUp, redisPool, connected, serverScript, zset, zexp,
                   now, ticks, notCache, link>>

SetCall(key, value, ttl) ==
    /\ CallStartable
    /\ kv' = CacheSet(key, value, ttl)
    /\ cres' = Call("set", key, CacheSetOk(value))
    /\ wrote' = IF CacheSetOk(value)
                  THEN Put(wrote, key, [val |-> value, ttl |-> ttl, at |-> now])
                  ELSE wrote
    /\ CallFrame

GetCall(key) ==
    /\ CallStartable
    /\ cres' = Call("get", key, CacheGet(key))
    /\ UNCHANGED <<kv, wrote>>
    /\ CallFrame

DeleteCall(key) ==
    /\ CallStartable
    /\ kv' = CacheDelete(key)
    /\ cres' = Call("delete", key, CacheDeleteRet(key))
    /\ wrote' = IF IsConnected /\ redisUp THEN Drop(wrote, key) ELSE wrote
    /\ CallFrame

ExistsCall(key) ==
    /\ CallStartable
    /\ cres' = Call("exists", key, CacheExists(key))
    /\ UNCHANGED <<kv, wrote>>
    /\ CallFrame

TtlCall(key) ==
    /\ CallStartable
    /\ cres' = Call("ttl", key, CacheTtl(key))
    /\ UNCHANGED <<kv, wrote>>
    /\ CallFrame

IncrementCall(key) ==
    /\ CallStartable
    /\ kv' = CacheIncrement(key)
    /\ cres' = Call("increment", key, CacheIncrementRet(key))
    /\ wrote' = IF CacheIncrementOk(key) THEN Drop(wrote, key) ELSE wrote
    /\ CallFrame

GetKeysCall(pattern) ==
    /\ CallStartable
    /\ cres' = Call("get_keys", pattern, CacheGetKeys(pattern))
    /\ UNCHANGED <<kv, wrote>>
    /\ CallFrame

ClearPatternCall(pattern) ==
    /\ CallStartable
    /\ kv' = CacheClearPattern(pattern)
    /\ cres' = Call("clear_pattern", pattern, CacheClearPatternRet(pattern))
    /\ wrote' = [k \in DOMAIN wrote \ CacheGetKeys(pattern) |-> wrote[k]]
    /\ CallFrame

HealthCheckCall ==
    /\ CallStartable
    /\ cres' = Call("health_check", "", CacheHealthCheck)
    /\ UNCHANGED <<kv, wrote>>
    /\ CallFrame

\* RedisCache.connect, called at any time
ConnectCall ==
    /\ ConnectEffect
    /\ link' = IF ConnectOk THEN "ok" ELSE "failed"
    /\ UNCHANGED <<redisUp, serverScript, zset, zexp, kv, now, ticks,
                   notCache, cres, wrote, ncall>>

\* RedisCache.disconnect: closes the pool if there is one; the attribute
\* keeps the closed pool object.
Disconnect ==
    /\ redisPool
    /\ connected' = FALSE
    /\ link' = "closed"
    /\ UNCHANGED <<redisUp, redisPool, serverScript, zset, zexp, kv, now, ticks,
                   notCache, cres, wrote, ncall>>

(***************************************************************************)
(* The fetcher services (backend/pubmed.py, clinicaltrials.py, drugbank.py)*)
(***************************************************************************)
Services == {"pubmed", "clinicaltrials", "drugbank"}
Permits(svc) ==
    CASE svc = "pubmed"         -> PubMedPermits
      [] svc = "clinicaltrials" -> ClinicalTrialsPermits
      [] OTHER                  -> DrugBankPermits

\* The methods whose body is inside `async with self.rate_limiter`.
GuardedMethods ==
    {<<"pubmed", "search_papers">>, <<"clinicaltrials", "search_trials">>,
     <<"drugbank", "get_drug_details">>, <<"drugbank", "search_drugs">>}
\* The methods that call self.session.get without taking the semaphore.
\* sync_all_drugs then calls get_drug_details for every drug of the list.
SyncAllDrugs == <<"drugbank", "sync_all_drugs">>
UnguardedMethods ==
    {<<"pubmed", "fetch_paper_details">>, <<"pubmed", "get_citation_count">>,
     <<"clinicaltrials", "get_trial_details">>, SyncAllDrugs}
FetchMethods == GuardedMethods \cup UnguardedMethods

\* The places of a task inside a method: "wait" at the semaphore, "held" a
\* request in flight with a permit held ("held2": the second request of
\* search_papers, made by fetch_paper_details under the same permit),
\* "http" a request in flight without a permit.
FetchPcs == {"wait", "held", "held2", "http"}
Places == {<<m[1], m[2], pc>> : m \in FetchMethods, pc \in FetchPcs}
Place(m, pc) == <<m[1], m[2], pc>>

\* Where a call starts.
StartPc(m) == IF m \in GuardedMethods THEN "wait" ELSE "http"
\* Where a task goes when the response of its request is in; "out": it returns.
After(m, pc) ==
    CASE pc = "http" /\ m = SyncAllDrugs -> {"wait", "out"}
      [] pc = "held" /\ m = SyncAllDrugs -> {"wait", "out"}
      [] pc = "held" /\ m = <<"pubmed", "search_papers">> -> {"held2", "out"}
      [] OTHER -> {"out"}

RECURSIVE SumLoc(_, _)
SumLoc(f, S) ==
    IF S = {} THEN 0
    ELSE LET x == CHOOSE y \in S : TRUE IN f[x] + SumLoc(f, S \ {x})

\* HTTP requests to a service that are in flight.
InFlight(svc) ==
    SumLoc(loc, {pl \in Places : pl[1] = svc /\ pl[3] \in {"held", "held2", "http"}})

Move(f, from, to) ==
    [pl \in Places |->
        f[pl] + (IF pl = to THEN 1 ELSE 0) - (IF pl = from THEN 1 ELSE 0)]

\* A task calls method m of a service.
FetchCall(m) ==
    /\ ntask < MaxTasks
    /\ ntask' = ntask + 1
    /\ loc' = Move(loc, <<>>, Place(m, StartPc(m)))
    /\ UNCHANGED <<semaphore, notFetch>>

\* async with self.rate_limiter: a waiting task gets a permit and sends its
\* request.
Acquire(m) ==
    /\ loc[Place(m, "wait")] > 0
    /\ semaphore[m[1]] > 0
    /\ semaphore' = [semaphore EXCEPT ![m[1]] = @ - 1]
    /\ loc' = Move(loc, Place(m, "wait"), Place(m, "held"))
    /\ UNCHANGED <<ntask, notFetch>>

\* The response of a request is in; leaving the `async with` gives the
\* permit back.
Respond(m, pc, to) ==
    /\ pc \in {"held", "held2", "http"}
    /\ loc[Place(m, pc)] > 0
    /\ to \in After(m, pc)
    /\ loc' = Move(loc, Place(m, pc), IF to = "out" THEN <<>> ELSE Place(m, to))
    /\ semaphore' = IF pc \in {"held", "held2"} /\ to # "held2"
                      THEN [semaphore EXCEPT ![m[1]] = @ + 1]
                      ELSE semaphore
    /\ UNCHANGED <<ntask, notFetch>>

(***************************************************************************)
(* Parsing of provider responses by the fetchers                           *)
(***************************************************************************)
\* A record of a response: id tells the records apart; shape is
\*   "ok"    well-formed,
\*   "inner" a field inside the record has the wrong type (an author that is
\*           a number, phases[0] that is a string, ...),
\*   "outer" the record itself, or its top-level section, is not an object.
Shapes == {"ok", "inner", "outer"}
Record(id, shape) == [id |-> id, shape |-> shape]

\* PubMedService._parse_paper_data and DrugBankService._parse_drug_data have
\* no try: .get / `in` / [0] on a value of the wrong type raises.
ParsePaperRaises == {"inner", "outer"}
ParseDrugRaises == {"inner", "outer"}
\* ClinicalTrialsService._parse_trial_data catches the exception and returns
\* None; the handler itself evaluates study_data.get("protocolSection",
\* {}).get(...), which raises again when the record or that section is not
\* an object.
ParseTrialRaises == {"outer"}
ParseTrialNone == {"inner"}

\* The loop `for x in records: out.append(parse(x))` of a method: raised
\* tells that an exception left the loop, out is the list built. raises:
\* the shapes on which parse raises; skips: those for which it returns None.
RECURSIVE ParseLoop(_, _, _)
ParseLoop(recs, raises, skips) ==
    IF recs = <<>> THEN [raised |-> FALSE, out |-> <<>>]
    ELSE IF Head(recs).shape \in raises THEN [raised |-> TRUE, out |-> <<>>]
    ELSE LET rest == ParseLoop(Tail(recs), raises, skips)
         IN  [raised |-> rest.raised,
              out |-> IF Head(recs).shape \in skips THEN rest.out
                      ELSE <<Head(recs).id>> \o rest.out]
NeverSkips == {}

Min(a, b) == IF a <= b THEN a ELSE b
\* PubMedService.fetch_paper_details: batches of batch_size pmids, each
\* fetched and parsed by _fetch_paper_batch; any exception: return [].
RECURSIVE FetchBatches(_)
FetchBatches(recs) ==
    IF recs = <<>> THEN [raised |-> FALSE, out |-> <<>>]
    ELSE LET n == Min(PubMedBatchSize, Len(recs))
             batch == ParseLoop(SubSeq(recs, 1, n), ParsePaperRaises, NeverSkips)
             rest == FetchBatches(SubSeq(recs, n + 1, Len(recs)))
         IN  [raised |-> batch.raised \/ rest.raised, out |-> batch.out \o rest.out]
FetchPaperDetails(recs) ==
    LET r == FetchBatches(recs) IN IF r.raised THEN <<>> ELSE r.out

\* ClinicalTrialsService.search_trials: the loop inside try; except: return []
SearchTrials(recs) ==
    LET r == ParseLoop(recs, ParseTrialRaises, ParseTrialNone)
    IN  IF r.raised THEN <<>> ELSE r.out

\* DrugBankService.search_drugs: the loop inside try; except: return []
SearchDrugs(recs) ==
    LET r == ParseLoop(recs, ParseDrugRaises, NeverSkips)
    IN  IF r.raised THEN <<>> ELSE r.out

\* The responses: up to MaxRecords records, numbered in order.
Responses ==
    UNION {[1..n -> Shapes] : n \in 0..MaxRecords}
RecordsOf(shapes) == [i \in DOMAIN shapes |-> Record(i, shapes[i])]

NotParsed == [by |-> "none", out |-> <<>>]
FetchPaperDetailsCall ==
    /\ parsed = NotParsed
    /\ parsed' = [by |-> "pubmed", out |-> FetchPaperDetails(resp)]
    /\ UNCHANGED <<resp, notParse>>
SearchTrialsCall ==
    /\ parsed = NotParsed
    /\ parsed' = [by |-> "clinicaltrials", out |-> SearchTrials(resp)]
    /\ UNCHANGED <<resp, notParse>>
SearchDrugsCall ==
    /\ parsed = NotParsed
    /\ parsed' = [by |-> "drugbank", out |-> SearchDrugs(resp)]
    /\ UNCHANGED <<resp, notParse>>

(***************************************************************************)
(* The generated outputs (backend/database_api.py, backend/models.py)       *)
(***************************************************************************)
\* GeneratedOutputRequest.output_type
OutputTypes == {"search", "discovery"}

\* get_generated_outputs: limit: int = Query(50, ge=1, le=200)
DefaultLimit == 50
Limits == {1, DefaultLimit}
\* output_type: Optional[str] = None
NoFilter == "none"

NoSres == [op |-> "none", status |-> 0, body |-> <<>>, dbWasUp |-> TRUE]

\* GeneratedOutput(...): id is the autoincrement primary key, session_id a
\* fresh uuid4, status 'completed'
GeneratedOutput(id, output_type, session_id) ==
    [id |-> id, output_type |-> output_type, status |-> "completed",
     session_id |-> session_id]

\* main.py sqlalchemy_exception_handler: a SQLAlchemyError leaving an endpoint
\* becomes a 500 response
DatabaseError == 500

\* POST /db/output. db.add; db.commit; db.refresh; return new_output. There is
\* no except clause: when the database cannot be reached commit() raises
\* OperationalError, nothing is kept, and the handler of main.py answers.
SaveGeneratedOutput(output_type) ==
    /\ nsave < MaxOutputs
    /\ nsave' = nsave + 1
    /\ LET row == GeneratedOutput(Len(outputs) + 1, output_type, nsave + 1)
       IN  IF dbUp
           THEN /\ outputs' = Append(outputs, row)
                /\ sres' = [op |-> "save", status |-> 200, body |-> <<row>>,
                            dbWasUp |-> TRUE]
           ELSE /\ outputs' = outputs
                /\ sres' = [op |-> "save", status |-> DatabaseError,
                            body |-> <<>>, dbWasUp |-> FALSE]
    /\ UNCHANGED <<dbUp, notStore>>

\* order_by(created_at.desc()).limit(limit)
RECURSIVE Reverse(_)
Reverse(seq) ==
    IF seq = <<>> THEN <<>> ELSE Append(Reverse(Tail(seq)), Head(seq))
Take(seq, n) == SubSeq(seq, 1, IF Len(seq) < n THEN Len(seq) ELSE n)

\* GET /db/outputs: the rows of the table that pass the filter, newest first
GetGeneratedOutputs(output_type, limit) ==
    /\ sres.op # "list"
    /\ IF dbUp
       THEN LET rows == SelectSeq(outputs, LAMBDA r :
                            output_type = NoFilter
                            \/ r.output_type = output_type)
            IN  sres' = [op |-> "list", status |-> 200,
                         body |-> Take(Reverse(rows), limit),
                         dbWasUp |-> TRUE]
       ELSE sres' = [op |-> "list", status |-> DatabaseError, body |-> <<>>,
                     dbWasUp |-> FALSE]
    /\ UNCHANGED <<dbUp, outputs, nsave, notStore>>

\* The database server stops or comes back.
DbDown ==
    /\ dbUp
    /\ dbUp' = FALSE
    /\ UNCHANGED <<outputs, sres, nsave, notStore>>
DbBack ==
    /\ ~dbUp
    /\ dbUp' = TRUE
    /\ UNCHANGED <<outputs, sres, nsave, notStore>>

(***************************************************************************)
(* The search endpoint (backend/integrated_api.py) over the corpus of       *)
(* DataLoader (backend/data_loader.py). A string is the sequence of its    *)
(* characters.                                                             *)
(***************************************************************************)
\* str.lower
UpperLetters == 
    <<"A", "B", "C", "D", "E", "F", "G", "H", "I", "J", "K", "L", "M",
      "N", "O", "P", "Q", "R", "S", "T", "U", "V", "W", "X", "Y", "Z">>
LowerLetters == 
    <<"a", "b", "c", "d", "e", "f", "g", "h", "i", "j", "k", "l", "m",
      "n", "o", "p", "q", "r", "s", "t", "u", "v", "w", "x", "y", "z">>
LowerChar(c) ==
    IF \E i \in DOMAIN UpperLetters : UpperLetters[i] = c
    THEN LowerLetters[CHOOSE i \in DOMAIN UpperLetters : UpperLetters[i] = c]
    ELSE c
Lower(str) == [i \in DOMAIN str |-> LowerChar(str[i])]

\* q in str
Contains(q, str) ==
    \E i \in 1..(Len(str) - Len(q) + 1) : SubSeq(str, i, i + Len(q) - 1) = q

\* str.strip
RECURSIVE Strip(_)
Strip(str) ==
    IF str # <<>> /\ Head(str) = " " THEN Strip(Tail(str))
    ELSE IF str # <<>> /\ str[Len(str)] = " "
         THEN Strip(SubSeq(str, 1, Len(str) - 1))
         ELSE str

\* str.split('|')
RECURSIVE Split(_)
Split(str) ==
    IF \E i \in DOMAIN str : str[i] = "|"
    THEN LET i == CHOOSE j \in DOMAIN str :
                      /\ str[j] = "|"
                      /\ \A k \in 1..(j - 1) : str[k] # "|"
         IN  <<SubSeq(str, 1, i - 1)>> \o Split(SubSeq(str, i + 1, Len(str)))
    ELSE <<str>>

Range(seq) == {seq[i] : i \in DOMAIN seq}
SeqsUpTo(S, n) == UNION {[1..k -> S] : k \in 0..n}

\* results[:n]
Slice(seq, n) == SubSeq(seq, 1, IF Len(seq) < n THEN Len(seq) ELSE n)

\* if x not in results: results.append(x), for each x of xs in order
RECURSIVE AppendNew(_, _)
AppendNew(results, xs) ==
    IF xs = <<>> THEN results
    ELSE AppendNew(IF Head(xs) \in Range(results) THEN results
                   ELSE Append(results, Head(xs)), Tail(xs))

\* The keys of a dict filled in this order: order of first insertion
Keys(seq) == AppendNew(<<>>, seq)

\* A record of the hero-cases file
HeroCase(drug_name, repurposed_cancer, mechanism, pathways, confidence_score) ==
    [drug_name |-> drug_name, repurposed_cancer |-> repurposed_cancer,
     cancer_is_list |-> TRUE,
     mechanism |-> mechanism, pathways |-> pathways, phase |-> <<"2">>,
     confidence_score |-> confidence_score]
\* The same with "repurposed_cancer": "<one cancer>", a str instead of a list
HeroCaseStr(drug_name, repurposed_cancer, mechanism, pathways,
            confidence_score) ==
    [HeroCase(drug_name, repurposed_cancer, mechanism, pathways,
              confidence_score) EXCEPT !.cancer_is_list = FALSE]

\* A record of the Broad Hub file
BroadDrug(pert_iname, moa, target, disease_area) ==
    [pert_iname |-> pert_iname, clinical_phase |-> <<"L">>, moa |-> moa,
     target |-> target, disease_area |-> disease_area, indication |-> <<>>]

\* The records the corpus files are made of. confidence_score in hundredths.
HeroCandidates ==
    {HeroCase(<<"A", "s">>, <<<<"c", "o">>>>, <<"c", "x">>, <<>>, 85),
     HeroCase(<<"a", "s", "p">>, <<<<"c", "o">>>>, <<"c", "x">>, <<>>, 92),
     HeroCase(<<"M", "e">>, <<<<"b", "r">>>>, <<"a", "m">>,
              <<<<"m", "t">>>>, 85)}
\* Hero cases with the cancers as a list and as a single string
CancerCandidates ==
    {HeroCase(<<"M", "e">>, <<<<"B", "r", "e", "a">>, <<"L", "u">>>>,
              <<"a", "m">>, <<>>, 85),
     HeroCaseStr(<<"T", "a">>, <<"B", "r", "e", "a">>, <<"s", "e">>, <<>>, 80)}
\* Queries of the two characters the endpoint requires
CancerQueries == {<<"b", "r">>, <<"E", "A">>, <<"l", "u">>, <<"t", "a">>}
BroadCandidates ==
    {BroadDrug(<<"a", "s">>, <<"c", "x">>, <<"P", "|", " ", "Q">>, <<"h">>),
     BroadDrug(<<"m", "e", "t">>, <<"a", "m">>, <<>>, <<"a", "s">>)}

\* DataLoader._build_indexes: drugs_by_name, keyed by the lowered name; a
\* later drug of the same name replaces the earlier one
NameKeys ==
    Keys(SelectSeq([i \in DOMAIN broad_drugs |->
                        Lower(broad_drugs[i].pert_iname)],
                   LAMBDA name : name # <<>>))
DrugsByName(name) ==
    LET last == CHOOSE i \in DOMAIN broad_drugs :
                    /\ Lower(broad_drugs[i].pert_iname) = name
                    /\ \A j \in DOMAIN broad_drugs :
                           Lower(broad_drugs[j].pert_iname) = name => j <= i
    IN  broad_drugs[last]

\* drugs_by_moa: moa -> the drugs with it, in file order
MoaKeys ==
    Keys(SelectSeq([i \in DOMAIN broad_drugs |-> broad_drugs[i].moa],
                   LAMBDA moa : moa # <<>>))
DrugsByMoa(moa) == SelectSeq(broad_drugs, LAMBDA drug : drug.moa = moa)

\* The targets of a drug: the pipe-separated parts, stripped, empty ones
\* dropped
TargetsOf(drug) ==
    LET parts == Split(drug.target)
    IN  SelectSeq([i \in DOMAIN parts |-> Strip(parts[i])],
                  LAMBDA target : target # <<>>)

RECURSIVE Flatten(_)
Flatten(seqs) ==
    IF seqs = <<>> THEN <<>> ELSE Head(seqs) \o Flatten(Tail(seqs))

\* drugs_by_target: target -> the drugs with it, once per occurrence
AllTargets ==
    Flatten([i \in DOMAIN broad_drugs |->
                 IF broad_drugs[i].target = <<>> THEN <<>>
                 ELSE TargetsOf(broad_drugs[i])])
TargetKeys == Keys(AllTargets)
DrugsByTarget(target) ==
    Flatten([i \in DOMAIN broad_drugs |->
                 IF broad_drugs[i].target = <<>> THEN <<>>
                 ELSE LET ts == TargetsOf(broad_drugs[i])
                      IN  [k \in DOMAIN SelectSeq(ts, LAMBDA t : t = target)
                               |-> broad_drugs[i]]])

\* DataLoader.search_drugs: exact name, partial name, mechanism, target,
\* disease area or indication; the first `limit` of them
SearchDrugsByQuery(query, limit) ==
    LET query_lower == Lower(query)
        exact == IF query_lower \in Range(NameKeys)
                 THEN <<DrugsByName(query_lower)>> ELSE <<>>
        names == SelectSeq(NameKeys, LAMBDA name : Contains(query_lower, name))
        partial == AppendNew(exact,
                       [i \in DOMAIN names |-> DrugsByName(names[i])])
        moas == SelectSeq(MoaKeys,
                          LAMBDA moa : Contains(query_lower, Lower(moa)))
        byMoa == AppendNew(partial,
                     Flatten([i \in DOMAIN moas |-> DrugsByMoa(moas[i])]))
        targets == SelectSeq(TargetKeys,
                       LAMBDA target : Contains(query_lower, Lower(target)))
        byTarget == AppendNew(byMoa,
                        Flatten([i \in DOMAIN targets |->
                                     DrugsByTarget(targets[i])]))
        rest == SelectSeq(broad_drugs, LAMBDA drug :
                    \/ Contains(query_lower, Lower(drug.disease_area))
                    \/ Contains(query_lower, Lower(drug.indication)))
    IN  Slice(AppendNew(byTarget, rest), limit)

\* str(d) of a Broad Hub record: the repr of the dict, keys included
Quoted(str) == <<"'">> \o str \o <<"'">>
Item(key, str) == Quoted(key) \o <<":", " ">> \o Quoted(str)
StrOfDrug(d) ==
    <<"{">>
    \o Item(<<"p", "e", "r", "t", "_", "i", "n", "a", "m", "e">>, d.pert_iname)
    \o <<",", " ">>
    \o Item(<<"c", "l", "i", "n", "i", "c", "a", "l", "_", "p", "h", "a",
              "s", "e">>, d.clinical_phase)
    \o <<",", " ">> \o Item(<<"m", "o", "a">>, d.moa)
    \o <<",", " ">> \o Item(<<"t", "a", "r", "g", "e", "t">>, d.target)
    \o <<",", " ">>
    \o Item(<<"d", "i", "s", "e", "a", "s", "e", "_", "a", "r", "e", "a">>,
            d.disease_area)
    \o <<",", " ">>
    \o Item(<<"i", "n", "d", "i", "c", "a", "t", "i", "o", "n">>, d.indication)
    \o <<"}">>

\* get_oncology_drugs(limit=500)
OncologyPool == 500
\* targets[:5]
TargetsShown == 5
\* confidence_score: Optional[float] = None
NoScore == -1

\* DrugMatch(source="hero_case", ...)
HeroMatch(case) ==
    [source |-> "hero_case", drug_name |-> case.drug_name,
     clinical_phase |-> case.phase, mechanism |-> case.mechanism,
     confidence_score |-> case.confidence_score,
     cancer_types |-> IF case.cancer_is_list THEN case.repurposed_cancer
                      ELSE <<case.repurposed_cancer>>,
     targets |-> <<>>]
\* DrugMatch(source="broad_hub", ...)
BroadMatch(drug) ==
    [source |-> "broad_hub", drug_name |-> drug.pert_iname,
     clinical_phase |-> drug.clinical_phase, mechanism |-> drug.moa,
     confidence_score |-> NoScore, cancer_types |-> <<>>,
     targets |-> IF drug.target = <<>> THEN <<>>
                 ELSE Slice(Split(drug.target), TargetsShown)]

\* for cancer in case.get("repurposed_cancer", []): the items of a list, the
\* characters of a str
CancersIterated(case) ==
    IF case.cancer_is_list THEN case.repurposed_cancer
    ELSE [i \in DOMAIN case.repurposed_cancer |->
              <<case.repurposed_cancer[i]>>]

\* The test of the loop over loader.get_hero_cases(), lines 76-79
HeroCaseMatches(query_lower, case) ==
    \/ Contains(query_lower, Lower(case.drug_name))
    \/ \E i \in DOMAIN CancersIterated(case) :
           Contains(query_lower, Lower(CancersIterated(case)[i]))
    \/ Contains(query_lower, Lower(case.mechanism))
    \/ \E i \in DOMAIN case.pathways :
           Contains(query_lower, Lower(case.pathways[i]))

\* hero_matches: the matching cases in the order of the file
HeroMatches(query_lower) ==
    LET cases == SelectSeq(hero_cases,
                     LAMBDA case : HeroCaseMatches(query_lower, case))
    IN  [i \in DOMAIN cases |-> HeroMatch(cases[i])]

\* broad_matches
BroadMatches(q, limit, oncology_only) ==
    LET query_lower == Lower(q)
        search_results ==
            IF oncology_only
            THEN SelectSeq(Slice(oncology_compounds, OncologyPool),
                     LAMBDA d : Contains(query_lower, Lower(StrOfDrug(d))))
            ELSE SearchDrugsByQuery(q, limit * 2)
        shown == Slice(search_results, limit)
    IN  [i \in DOMAIN shown |-> BroadMatch(shown[i])]

\* all_matches = hero_matches + broad_matches
AllMatchesMutantBroadFirst(q, limit, oncology_only) ==
    BroadMatches(q, limit, oncology_only) \o HeroMatches(Lower(q))
AllMatches(q, limit, oncology_only) ==
    HeroMatches(Lower(q)) \o BroadMatches(q, limit, oncology_only)

\* The queries (min_length=2), the limits (ge=1), the measured times
Queries == {<<"a", "s">>, <<"M", "E">>}
SearchLimits == {1, 2}
ExecutionTimes == {1, 2}

NoSearch == [op |-> "none"]

\* GET /api/v1/search. The handler consults no cache: every request runs the
\* search again. `ran` says that the body ran; `repeat` that the request
\* equals the one before it (no time has passed since); `before` holds the
\* results returned then.
SearchResponse(q, limit, oncology_only, ms) ==
    LET all_matches == AllMatches(q, limit, oncology_only)
        hero_matches == HeroMatches(Lower(q))
    IN  [op |-> "search", query |-> q, limit |-> limit,
         oncology_only |-> oncology_only,
         total_results |-> Len(all_matches),
         hero_cases_found |-> Len(hero_matches),
         broad_hub_matches |-> Len(all_matches) - Len(hero_matches),
         execution_time_ms |-> ms,
         results |-> Slice(all_matches, limit),
         at |-> now]
SearchRepurposing(q, limit, oncology_only) ==
    /\ \E ms \in ExecutionTimes :
          LET repeat == /\ sq # NoSearch
                        /\ sq.r.query = q
                        /\ sq.r.limit = limit
                        /\ sq.r.oncology_only = oncology_only
                        /\ now - sq.r.at < MediumTtl
          IN  sq' = [r |-> SearchResponse(q, limit, oncology_only, ms),
                     ran |-> TRUE,
                     repeat |-> repeat,
                     before |-> IF repeat THEN sq.r.results ELSE <<>>]
    /\ UNCHANGED <<hero_cases, broad_drugs, oncology_compounds, lk, dm,
                 notSearch>>

\* DataLoader.get_hero_case: the first case of that name, case-insensitive
HasHeroCase(drug_name) ==
    \E i \in DOMAIN hero_cases :
        Lower(hero_cases[i].drug_name) = Lower(drug_name)
GetHeroCase(drug_name) ==
    hero_cases[CHOOSE i \in DOMAIN hero_cases :
                   /\ Lower(hero_cases[i].drug_name) = Lower(drug_name)
                   /\ \A j \in 1..(i - 1) :
                          Lower(hero_cases[j].drug_name) # Lower(drug_name)]

\* DataLoader.get_drug_by_name: drugs_by_name.get(name.lower())
HasDrugByName(name) == Lower(name) \in Range(NameKeys)

\* HTTPException(status_code=404)
NotFound == 404
NoLookup == [op |-> "none"]

\* GET /api/v1/drug/{drug_name}: the hero case and the Broad Hub drug of that
\* name; when there is neither, the first hit of search_drugs(drug_name,
\* limit=5) stands in for the drug, and only without any hit the answer is 404
DetailsSearchLimit == 5
GetDrugDetails(drug_name) ==
    LET hero == HasHeroCase(drug_name)
        named == HasDrugByName(drug_name)
        search_results == SearchDrugsByQuery(drug_name, DetailsSearchLimit)
        found == named \/ (~hero /\ search_results # <<>>)
        broad_drug == IF named THEN DrugsByName(Lower(drug_name))
                      ELSE Head(search_results)
    IN  /\ lk' = IF ~hero /\ ~found
                 THEN [op |-> "drug", arg |-> drug_name, status |-> NotFound]
                 ELSE [op |-> "drug", arg |-> drug_name, status |-> 200,
                       found_in_hero_cases |-> hero,
                       found_in_broad_hub |-> found,
                       hero_data |-> IF hero
                                     THEN <<HeroMatch(GetHeroCase(drug_name))>>
                                     ELSE <<>>,
                       broad_data |-> IF found
                                      THEN <<[name |-> broad_drug.pert_iname,
                                              mechanism |-> broad_drug.moa,
                                              targets |->
                                                  IF broad_drug.target = <<>>
                                                  THEN <<>>
                                                  ELSE Split(broad_drug.target)]>>
                                      ELSE <<>>]
        /\ UNCHANGED <<hero_cases, broad_drugs, oncology_compounds, sq, dm,
                       notSearch>>

\* DataLoader.get_drugs_by_mechanism: drugs_by_moa.get(moa, []), the drugs
\* whose moa is exactly that string
GetDrugsByMechanismOf(moa) ==
    IF moa \in Range(MoaKeys) THEN DrugsByMoa(moa) ELSE <<>>

\* GET /api/v1/mechanism/{moa}
GetDrugsByMechanism(moa, limit) ==
    LET drugs == GetDrugsByMechanismOf(moa)
        shown == Slice(drugs, limit)
    IN  /\ lk' = IF drugs = <<>>
                 THEN [op |-> "mechanism", arg |-> moa, limit |-> limit,
                       status |-> NotFound]
                 ELSE [op |-> "mechanism", arg |-> moa, limit |-> limit,
                       status |-> 200, total_drugs |-> Len(shown),
                       drugs |-> [i \in DOMAIN shown |->
                                     shown[i].pert_iname]]
        /\ UNCHANGED <<hero_cases, broad_drugs, oncology_compounds, sq, dm,
                       notSearch>>

\* The names and mechanisms asked for
LookupNames ==
    {<<"a", "s">>, <<"A", "S", "P">>, <<"c", "x">>, <<"z", "z">>}
LookupMoas == {<<"c", "x">>, <<"c">>, <<"C", "X">>}

(***************************************************************************)
(* The confidence scorer (backend/confidence_scorer.py). A score s is kept *)
(* as the integer 600 * s, a weight in hundredths, and a confidence as     *)
(* 60000 * confidence, so that the average of one, two or three source     *)
(* scores and the weighted sum are exact.                                  *)
(***************************************************************************)
\* 1.0 as a score, and 0.01
One == 600
Hundredth == 6
\* 1.0 as a confidence
Full == 60000

\* ConfidenceScorer.weights, in hundredths
WeightsMutantEqual ==
    [phase |-> 20, trial_count |-> 20, citations |-> 20, sources |-> 20,
     mechanism |-> 20]
Weights ==
    [phase |-> 40, trial_count |-> 20, citations |-> 15, sources |-> 15,
     mechanism |-> 10]

\* score_clinical_phase: the first key of phase_map, in its order, that the
\* lowered string contains
PhaseMap ==
    <<[key |-> <<"a", "p", "p", "r", "o", "v", "e", "d">>, value |-> 100],
      [key |-> <<"p", "h", "a", "s", "e", " ", "3">>, value |-> 85],
      [key |-> <<"p", "h", "a", "s", "e", " ", "2">>, value |-> 65],
      [key |-> <<"p", "h", "a", "s", "e", " ", "1">>, value |-> 45],
      [key |-> <<"p", "r", "e", "c", "l", "i", "n", "i", "c", "a", "l">>,
       value |-> 25]>>
ScoreClinicalPhase(phase_str) ==
    LET phase_str_lower == Lower(phase_str)
        hits == SelectSeq(PhaseMap,
                    LAMBDA e : Contains(e.key, phase_str_lower))
    IN  IF hits # <<>> THEN Head(hits).value * Hundredth
        ELSE 10 * Hundredth

\* score_trial_count
ScoreTrialCount(count) ==
    Hundredth * (IF count >= 100 THEN 100
                 ELSE IF count >= 50 THEN 85
                 ELSE IF count >= 20 THEN 70
                 ELSE IF count >= 10 THEN 55
                 ELSE IF count >= 5 THEN 40
                 ELSE IF count >= 1 THEN 25
                 ELSE 0)

\* score_citations
ScoreCitations(count) ==
    Hundredth * (IF count >= 300 THEN 100
                 ELSE IF count >= 150 THEN 85
                 ELSE IF count >= 75 THEN 70
                 ELSE IF count >= 30 THEN 55
                 ELSE IF count >= 10 THEN 40
                 ELSE IF count >= 1 THEN 25
                 ELSE 0)

\* The credibility of one source: the if/elif chain of score_sources
SourceValue(source) ==
    LET source_lower == Lower(source)
    IN  IF Contains(<<"r", "e", "p", "o", "d", "b">>, source_lower) THEN 95
        ELSE IF Contains(<<"f", "d", "a">>, source_lower) THEN 100
        ELSE IF Contains(<<"c", "l", "i", "n", "i", "c", "a", "l", "t", "r", "i", "a", "l", "s">>, source_lower) THEN 90
        ELSE IF Contains(<<"r", "e", "d", "o">>, source_lower) THEN 85
        ELSE IF Contains(<<"b", "r", "o", "a", "d">>, source_lower) THEN 80
        ELSE IF Contains(<<"p", "u", "b", "m", "e", "d">>, source_lower) THEN 75
        ELSE 50

\* list.sort(reverse=True)
RECURSIVE InsertDesc(_, _)
InsertDesc(x, sorted) ==
    IF sorted = <<>> THEN <<x>>
    ELSE IF x > Head(sorted) THEN <<x>> \o sorted
    ELSE <<Head(sorted)>> \o InsertDesc(x, Tail(sorted))
RECURSIVE SortDesc(_)
SortDesc(seq) ==
    IF seq = <<>> THEN <<>>
    ELSE InsertDesc(seq[Len(seq)], SortDesc(SubSeq(seq, 1, Len(seq) - 1)))

RECURSIVE Sum(_)
Sum(seq) == IF seq = <<>> THEN 0 ELSE Head(seq) + Sum(Tail(seq))

\* source_scores[:3]
TopSources == 3

\* score_sources: the average of the three best sources
ScoreSources(sources) ==
    IF sources = <<>> THEN 0
    ELSE LET source_scores == [i \in DOMAIN sources |-> SourceValue(sources[i])]
             top_sources == Slice(SortDesc(source_scores), TopSources)
         IN  (Sum(top_sources) * Hundredth) \div Len(top_sources)

\* score_mechanism
ScoreMechanism(pathways) ==
    Hundredth * (IF pathways = <<>> THEN 30
                 ELSE IF Len(pathways) >= 4 THEN 100
                 ELSE IF Len(pathways) = 3 THEN 85
                 ELSE IF Len(pathways) = 2 THEN 70
                 ELSE IF Len(pathways) = 1 THEN 55
                 ELSE 30)

\* max(0.0, min(1.0, confidence))
Clamp(confidence) ==
    IF confidence < 0 THEN 0
    ELSE IF confidence > Full THEN Full ELSE confidence

\* calculate_confidence
CalculateConfidenceMutantSum(e) ==
    100 * (ScoreClinicalPhase(e.phase) + ScoreTrialCount(e.clinical_trials)
           + ScoreCitations(e.pubmed_citations) + ScoreSources(e.sources)
           + ScoreMechanism(e.pathways))
CalculateConfidence(e) ==
    Clamp(ScoreClinicalPhase(e.phase) * Weights.phase
          + ScoreTrialCount(e.clinical_trials) * Weights.trial_count
          + ScoreCitations(e.pubmed_citations) * Weights.citations
          + ScoreSources(e.sources) * Weights.sources
          + ScoreMechanism(e.pathways) * Weights.mechanism)

\* get_confidence_tier
GetConfidenceTier(score) ==
    IF score >= 85 * One THEN "Very High"
    ELSE IF score >= 70 * One THEN "High"
    ELSE IF score >= 55 * One THEN "Moderate"
    ELSE IF score >= 40 * One THEN "Low"
    ELSE "Very Low"

\* round(x, 2) of x = n / unit: the nearest hundredth, a tie to the even one
Round2(n, unit) ==
    LET per == unit \div 100
        q == n \div per
        r == n % per
    IN  IF 2 * r > per THEN q + 1
        ELSE IF 2 * r < per THEN q
        ELSE IF q % 2 = 0 THEN q ELSE q + 1

\* explain_score: the total, its tier, and each factor's score and
\* contribution, rounded to hundredths
Factor(score, weight) ==
    [score |-> Round2(score, One), weight |-> weight,
     contribution |-> Round2(score * weight, Full)]
ExplainScore(e) ==
    LET total_score == CalculateConfidence(e)
    IN  [overall_score |-> Round2(total_score, Full),
         tier |-> GetConfidenceTier(total_score),
         breakdown |->
             [clinical_phase |->
                  Factor(ScoreClinicalPhase(e.phase), Weights.phase),
              trial_count |->
                  Factor(ScoreTrialCount(e.clinical_trials),
                         Weights.trial_count),
              citations |->
                  Factor(ScoreCitations(e.pubmed_citations),
                         Weights.citations),
              data_sources |->
                  Factor(ScoreSources(e.sources), Weights.sources),
              mechanism |->
                  Factor(ScoreMechanism(e.pathways), Weights.mechanism)]]

\* The evidence bundles: a phase string, counts on both sides of the steps,
\* up to MaxSources distinct sources in any order, up to MaxPathways pathways
\* (the i-th pathway is named i).
PhaseStrings ==
    {<<"P", "h", "a", "s", "e", " ", "2">>,
     <<"A", "P", "P", "R", "O", "V", "E", "D">>, <<>>}
TrialCounts == {0, 20, 100}
CitationCounts == {0, 30, 300}
SourceNames ==
    {<<"r", "e", "p", "o", "D", "B">>,
     <<"C", "l", "i", "n", "i", "c", "a", "l", "T", "r", "i", "a", "l", "s", ".", "g", "o", "v">>,
     <<"R", "e", "D", "O", "_", "D", "B">>, <<"F", "D", "A">>, <<"o", "t", "h", "e", "r">>}
SourceLists ==
    {l \in SeqsUpTo(SourceNames, MaxSources) :
        \A i, j \in DOMAIN l : l[i] = l[j] => i = j}
PathwayLists == {[i \in 1..n |-> i] : n \in 0..MaxPathways}
Bundles ==
    [phase : PhaseStrings, clinical_trials : TrialCounts,
     pubmed_citations : CitationCounts, sources : SourceLists,
     pathways : PathwayLists]

NoEvidence == [phase |-> <<>>, clinical_trials |-> 0, pubmed_citations |-> 0,
               sources |-> <<>>, pathways |-> <<>>]
NotScored == [by |-> "none"]

\* The scorer is called on the bundle, called again, asked to explain.
CalculateConfidenceCall ==
    /\ first = NotScored
    /\ first' = [by |-> "calculate_confidence",
                 confidence |-> CalculateConfidence(evidence)]
    /\ UNCHANGED <<evidence, again, explained, more, notScore>>
CalculateConfidenceAgain ==
    /\ first # NotScored
    /\ again = NotScored
    /\ again' = [by |-> "calculate_confidence",
                 confidence |-> CalculateConfidence(evidence)]
    /\ UNCHANGED <<evidence, first, explained, more, notScore>>
ExplainScoreCall ==
    /\ explained = NotScored
    /\ explained' = [by |-> "explain_score", out |-> ExplainScore(evidence)]
    /\ UNCHANGED <<evidence, first, again, more, notScore>>

\* calculate_confidence on the bundle and on the bundle with more evidence
\* in one field
Compared(field, larger) ==
    /\ more' = [by |-> field,
                before |-> CalculateConfidence(evidence),
                after |-> CalculateConfidence(larger)]
    /\ UNCHANGED <<evidence, first, again, explained, notScore>>
MoreTrials(count) ==
    /\ count > evidence.clinical_trials
    /\ Compared("clinical_trials", [evidence EXCEPT !.clinical_trials = count])
MoreCitations(count) ==
    /\ count > evidence.pubmed_citations
    /\ Compared("pubmed_citations",
                [evidence EXCEPT !.pubmed_citations = count])
OneMoreSource(source) ==
    Compared("sources", [evidence EXCEPT !.sources = Append(@, source)])

(***************************************************************************)
(* Validation of the query by the search endpoints, and the demo search   *)
(* (backend/demo_api.py over backend/demo_dataset.py)                      *)
(***************************************************************************)
\* DEMO_REPURPOSING_CASES: its first three cases; confidence_score in
\* hundredths
DemoRepurposingCases ==
  <<
    [id |-> 1,
     drug_name |->
        <<"M", "e", "t", "f", "o", "r", "m", "i", "n">>,
     cancer_type |->
        <<"B", "r", "e", "a", "s", "t", " ", "C", "a", "n", "c", "e",
          "r">>,
     original_indication |->
        <<"T", "y", "p", "e", " ", "2", " ", "D", "i", "a", "b", "e",
          "t", "e", "s">>,
     status |->
        <<"P", "h", "a", "s", "e", " ", "3", " ", "C", "l", "i", "n",
          "i", "c", "a", "l", " ", "T", "r", "i", "a", "l", "s">>,
     confidence_score |-> 87, demo_priority |-> 1,
     sources |-> {"repoDB", "ClinicalTrials.gov", "ReDO_DB"}],
    [id |-> 2,
     drug_name |->
        <<"A", "s", "p", "i", "r", "i", "n">>,
     cancer_type |->
        <<"C", "o", "l", "o", "r", "e", "c", "t", "a", "l", " ", "C",
          "a", "n", "c", "e", "r">>,
     original_indication |->
        <<"P", "a", "i", "n", " ", "R", "e", "l", "i", "e", "f", ",",
          " ", "C", "a", "r", "d", "i", "o", "v", "a", "s", "c", "u",
          "l", "a", "r", " ", "P", "r", "o", "t", "e", "c", "t", "i",
          "o", "n">>,
     status |->
        <<"A", "p", "p", "r", "o", "v", "e", "d", "/", "O", "n", "g",
          "o", "i", "n", "g", " ", "S", "t", "u", "d", "i", "e", "s">>,
     confidence_score |-> 92, demo_priority |-> 1,
     sources |-> {"repoDB", "ClinicalTrials.gov", "Published meta-analyses"}],
    [id |-> 3,
     drug_name |->
        <<"A", "t", "o", "r", "v", "a", "s", "t", "a", "t", "i", "n">>,
     cancer_type |->
        <<"P", "r", "o", "s", "t", "a", "t", "e", " ", "C", "a", "n",
          "c", "e", "r">>,
     original_indication |->
        <<"H", "i", "g", "h", " ", "C", "h", "o", "l", "e", "s", "t",
          "e", "r", "o", "l">>,
     status |->
        <<"P", "h", "a", "s", "e", " ", "2", " ", "C", "l", "i", "n",
          "i", "c", "a", "l", " ", "T", "r", "i", "a", "l", "s">>,
     confidence_score |-> 78, demo_priority |-> 1,
     sources |-> {"ClinicalTrials.gov", "ReDO_DB", "Broad Drug Repurposing Hub"}]
  >>

\* search_by_drug, search_by_cancer
SearchByDrug(drug_name) ==
    SelectSeq(DemoRepurposingCases,
        LAMBDA case : Contains(Lower(drug_name), Lower(case.drug_name)))
SearchByCancer(cancer_type) ==
    SelectSeq(DemoRepurposingCases,
        LAMBDA case : Contains(Lower(cancer_type), Lower(case.cancer_type)))
\* search_by_keyword: the four fields joined by spaces
SearchByKeyword(keyword) ==
    SelectSeq(DemoRepurposingCases,
        LAMBDA case :
            Contains(Lower(keyword),
                Lower(case.drug_name \o <<" ">> \o case.cancer_type
                      \o <<" ">> \o case.original_indication
                      \o <<" ">> \o case.status)))
\* a or b, on lists
OrElse(a, b) == IF a # <<>> THEN a ELSE b

\* results.sort(key=(confidence_score, -demo_priority), reverse=True): a
\* stable sort, equal keys keep their order
KeyAbove(a, b) ==
    \/ a.confidence_score > b.confidence_score
    \/ /\ a.confidence_score = b.confidence_score
       /\ a.demo_priority < b.demo_priority
RECURSIVE InsertByKey(_, _)
InsertByKey(x, sorted) ==
    IF sorted = <<>> THEN <<x>>
    ELSE IF KeyAbove(x, Head(sorted)) THEN <<x>> \o sorted
    ELSE <<Head(sorted)>> \o InsertByKey(x, Tail(sorted))
RECURSIVE SortByKey(_)
SortByKey(seq) ==
    IF seq = <<>> THEN <<>>
    ELSE InsertByKey(seq[Len(seq)], SortByKey(SubSeq(seq, 1, Len(seq) - 1)))

\* FastAPI's answer to a parameter that fails its Query(...) constraints
ValidationError == 422

\* GET /api/v1/demo/search. q: str = Query(...) is required but carries no
\* min_length, so the empty string passes validation and, being a substring
\* of every drug name, matches every case.
DemoResults(q, min_confidence, limit) ==
    Slice(SortByKey(SelectSeq(
              OrElse(SearchByDrug(q),
                     OrElse(SearchByCancer(q), SearchByKeyword(q))),
              LAMBDA r : r.confidence_score >= min_confidence)),
          limit)
DemoResponse(q, results) ==
    [by |-> "demo", query |-> q, status |-> 200,
     total_results |-> Len(results),
     matches |-> [i \in DOMAIN results |->
         [id |-> results[i].id,
          confidence_score |-> results[i].confidence_score,
          confidence_tier |->
              GetConfidenceTier(results[i].confidence_score * One)]],
     data_sources |-> UNION {results[i].sources : i \in DOMAIN results}]
DemoSearch(q, min_confidence, limit) ==
    /\ dm' = DemoResponse(q, DemoResults(q, min_confidence, limit))
    /\ UNCHANGED <<hero_cases, broad_drugs, oncology_compounds, sq, lk,
                   notSearch>>

\* GET /api/v1/search as a client reaches it: q = Query(..., min_length=2) is
\* checked before the handler runs
MinLength == 2
IntegratedResponse(q, limit, all_matches) ==
    [by |-> "integrated", query |-> q, status |-> 200,
     total_results |-> Len(all_matches),
     matches |-> Slice(all_matches, limit)]
IntegratedSearch(q, limit) ==
    /\ dm' = IF Len(q) < MinLength
             THEN [by |-> "integrated", query |-> q,
                   status |-> ValidationError]
             ELSE IntegratedResponse(q, limit, AllMatches(q, limit, FALSE))
    /\ UNCHANGED <<hero_cases, broad_drugs, oncology_compounds, sq, lk,
                   notSearch>>

\* The queries sent, the empty one among them; min_confidence in hundredths
SentQueries ==
    {<<>>, <<"a", "s">>, <<"c", "a", "n", "c", "e", "r">>,
     <<"p", "h", "a", "s", "e">>, <<"z", "z">>}
MinConfidences == {0, 80}

(***************************************************************************)
(* The session of a shared fetcher service (backend/pubmed.py; the same in *)
(* backend/clinicaltrials.py and backend/drugbank.py). pubmed_service is   *)
(* one module-level instance; every sync job enters it with `async with`.  *)
(***************************************************************************)
\* self.session = None
NoSession == 0
\* mine: the session the task's own __aenter__ created; got: what its last
\* request through self.session met
OutTask == [pc |-> "out", mine |-> NoSession, got |-> "none"]

\* __aenter__: a new ClientSession is bound to self.session, whatever was
\* there before
AEnter(t) ==
    /\ task[t].pc = "out"
    /\ nsess < MaxSessions
    /\ nsess' = nsess + 1
    /\ session' = nsess + 1
    /\ task' = [task EXCEPT ![t] = [pc |-> "in", mine |-> nsess + 1,
                                    got |-> "none"]]
    /\ UNCHANGED <<closed, notSess>>

\* self.session.get(...) in a method called inside the block: aiohttp raises
\* RuntimeError("Session is closed") on a closed session
SessionGet(t) ==
    /\ task[t].pc = "in"
    /\ task' = [task EXCEPT ![t].got =
                   IF session \in closed THEN "closed" ELSE "ok"]
    /\ UNCHANGED <<session, closed, nsess, notSess>>

\* __aexit__: if self.session: await self.session.close(); the attribute
\* keeps the closed session
AExit(t) ==
    /\ task[t].pc = "in"
    /\ closed' = IF session # NoSession THEN closed \cup {session} ELSE closed
    /\ task' = [task EXCEPT ![t] = [@ EXCEPT !.pc = "out"]]
    /\ UNCHANGED <<session, nsess, notSess>>

(***************************************************************************)
(* Environment                                                             *)
(***************************************************************************)
\* main.py lifespan: redis_cache.connect() at startup.
Lifespan ==
    /\ ~redisPool /\ ~connected
    /\ ConnectEffect
    /\ UNCHANGED <<redisUp, serverScript, zset, zexp, kv, now, ticks, rateVars, authVars>>
    /\ UNCHANGED extVars

\* The server becomes unreachable.
RedisDown ==
    /\ redisUp
    /\ redisUp' = FALSE
    /\ au' = [p \in Procs |-> [au[p] EXCEPT !.calm = FALSE]]
    /\ UNCHANGED <<redisPool, connected, serverScript, zset, zexp, kv, now, ticks,
                   rateVars, nextJti, tokens, hist>>
    /\ UNCHANGED extVars

\* The server restarts (or SCRIPT FLUSH): the data is kept, the script cache
\* is not.
RedisRestart ==
    /\ serverScript
    /\ serverScript' = FALSE
    /\ UNCHANGED <<redisUp, redisPool, connected, zset, zexp, kv, now, ticks,
                   rateVars, authVars>>
    /\ UNCHANGED extVars

\* The server is reachable again with its data.
RedisBack ==
    /\ ~redisUp
    /\ redisUp' = TRUE
    /\ UNCHANGED <<redisPool, connected, serverScript, zset, zexp, kv, now, ticks,
                   rateVars, authVars>>
    /\ UNCHANGED extVars

\* The clock advances. Long steps happen between requests only.
TickSteps == {1, WindowSize - 1}
Tick(d) ==
    /\ ticks < MaxTicks
    /\ d = 1 \/ \A p \in Procs : rq[p].pc # "timed"
    /\ now' = now + d
    /\ ticks' = ticks + 1
    /\ UNCHANGED <<redisVars, rateVars, authVars>>
    /\ UNCHANGED extVars

(***************************************************************************)
(* Initial state: the objects as constructed, nothing connected.           *)
(***************************************************************************)
\* The state after construction, inputs of the pure parts aside.
InitBase ==
    /\ redisUp \in BOOLEAN
    /\ redisPool = FALSE
    /\ connected = FALSE
    /\ serverScript = FALSE
    /\ zset = <<>>
    /\ zexp = <<>>
    /\ kv = <<>>
    /\ now = 0
    /\ ticks = 0
    /\ scripts = FALSE
    /\ rq = [p \in Procs |-> IdleRq]
    /\ nreq = 0
    /\ admLog = <<>>
    /\ nextJti = 1
    /\ tokens = {}
    /\ au = [p \in Procs |-> IdleAu]
    /\ cres = NoCall
    /\ wrote = <<>>
    /\ link = "never"
    /\ loc = [pl \in Places |-> 0]
    /\ semaphore = [svc \in Services |-> Permits(svc)]
    /\ ntask = 0
    /\ ncall = 0
    /\ hist = [presented |-> {}, rotated |-> {}, rotatedCalm |-> {},
               replayed |-> {}, loggedOutAny |-> {}, loggedOut |-> {},
               loggedOutTok |-> {}]
    /\ parsed = NotParsed
    /\ dbUp = TRUE
    /\ outputs = <<>>
    /\ sres = NoSres
    /\ nsave = 0
    /\ sq = NoSearch
    /\ lk = NoLookup
    /\ dm = NoLookup
    /\ first = NotScored
    /\ again = NotScored
    /\ explained = NotScored
    /\ session = NoSession
    /\ closed = {}
    /\ task = [t \in Procs |-> OutTask]
    /\ nsess = 0
    /\ more = NotScored

\* No corpus files: DataLoader starts with empty collections.
NoCorpus ==
    /\ hero_cases = <<>>
    /\ broad_drugs = <<>>
    /\ oncology_compounds = <<>>

Init ==
    /\ InitBase
    /\ resp = <<>>
    /\ NoCorpus
    /\ evidence = NoEvidence

\* A provider response arrives.
InitParse ==
    /\ InitBase
    /\ resp \in {RecordsOf(shapes) : shapes \in Responses}
    /\ NoCorpus
    /\ evidence = NoEvidence

\* The corpus files as loaded by DataLoader._load_all_data.
InitSearch ==
    /\ InitBase
    /\ redisUp
    /\ resp = <<>>
    /\ hero_cases \in SeqsUpTo(HeroCandidates, MaxHero)
    /\ broad_drugs \in SeqsUpTo(BroadCandidates, MaxDrugs)
    /\ oncology_compounds \in {<<>>, broad_drugs}
    /\ evidence = NoEvidence

\* Hero cases that store their cancers either way, and no Broad Hub file.
InitCancer ==
    /\ InitBase
    /\ redisUp
    /\ resp = <<>>
    /\ hero_cases \in SeqsUpTo(CancerCandidates, MaxHero)
    /\ broad_drugs = <<>>
    /\ oncology_compounds = <<>>
    /\ evidence = NoEvidence

\* A bundle is handed to the scorer, to be compared with larger ones; the
\* fields that stay equal in every comparison, phase and pathways, are empty.
InitMore ==
    /\ InitBase
    /\ redisUp
    /\ resp = <<>>
    /\ NoCorpus
    /\ evidence \in {e \in Bundles : e.phase = <<>> /\ e.pathways = <<>>}

\* An evidence bundle is handed to the scorer.
InitScore ==
    /\ InitBase
    /\ redisUp
    /\ resp = <<>>
    /\ NoCorpus
    /\ evidence \in Bundles

NextRate ==
    \/ Lifespan
    \/ RedisDown
    \/ RedisBack
    \/ RedisRestart
    \/ \E d \in TickSteps : Tick(d)
    \/ \E p \in Procs, i \in RateIds, t \in Tiers : CheckStart(p, i, t)
    \/ \E p \in Procs : CheckEval(p)
    \/ \E p \in Procs : CheckReturn(p)

SpecRate == Init /\ [][NextRate]_vars

\* The authentication requests are served one after the other by one handler;
\* Redis may become unreachable, and return, between any two steps of it.
AuthProc == CHOOSE p \in Procs : \A q \in Procs : p <= q

NextAuth ==
    \/ Lifespan
    \/ RedisDown
    \/ RedisBack
    \/ \E u \in AuthUsers : LoginStart(AuthProc, u)
    \/ LoginConnect(AuthProc)
    \/ LoginStore(AuthProc)
    \/ \E t \in tokens : RefreshStart(AuthProc, t)
    \/ RefreshGet(AuthProc)
    \/ RefreshDelete(AuthProc)
    \/ RefreshIssue(AuthProc)
    \/ RefreshStore(AuthProc)
    \/ \E t \in tokens : LogoutStart(AuthProc, t)
    \/ LogoutDelete(AuthProc)
    \/ \E t \in tokens : Me(AuthProc, t)
    \/ AuthReturn(AuthProc)

SpecAuth == Init /\ [][NextAuth]_vars

\* Direct calls of the RedisCache methods, one at a time, while the server
\* comes and goes and time passes.
NextCache ==
    \/ ConnectCall
    \/ Disconnect
    \/ RedisDown
    \/ RedisBack
    \/ \E d \in TickSteps : Tick(d)
    \/ \E k \in CacheKeys, v \in CacheValues, ttl \in CacheTtls : SetCall(k, v, ttl)
    \/ \E k \in CacheKeys : GetCall(k)
    \/ \E k \in CacheKeys : DeleteCall(k)
    \/ \E k \in CacheKeys : ExistsCall(k)
    \/ \E k \in CacheKeys : TtlCall(k)
    \/ \E k \in CacheKeys : IncrementCall(k)
    \/ \E pat \in CachePatterns : GetKeysCall(pat)
    \/ \E pat \in CachePatterns : ClearPatternCall(pat)
    \/ HealthCheckCall

SpecCache == Init /\ [][NextCache]_vars

\* Tasks calling the fetcher methods concurrently.
NextFetch ==
    \/ \E m \in FetchMethods : FetchCall(m)
    \/ \E m \in GuardedMethods \cup {SyncAllDrugs} : Acquire(m)
    \/ \E m \in FetchMethods, pc \in FetchPcs, to \in FetchPcs \cup {"out"} :
          Respond(m, pc, to)

SpecFetch == Init /\ [][NextFetch]_vars

\* A fetcher method parses the response.
NextParse ==
    \/ FetchPaperDetailsCall
    \/ SearchTrialsCall
    \/ SearchDrugsCall

SpecParse == InitParse /\ [][NextParse]_vars

\* Requests to /db/output and /db/outputs, the database coming and going.
NextStore ==
    \/ \E output_type \in OutputTypes : SaveGeneratedOutput(output_type)
    \/ \E output_type \in OutputTypes \cup {NoFilter}, limit \in Limits :
          GetGeneratedOutputs(output_type, limit)
    \/ DbDown
    \/ DbBack

SpecStore == Init /\ [][NextStore]_vars

\* Requests to GET /api/v1/search over a loaded corpus.
NextSearch ==
    \E q \in Queries, limit \in SearchLimits, oncology_only \in BOOLEAN :
        SearchRepurposing(q, limit, oncology_only)

SpecSearch == InitSearch /\ [][NextSearch]_vars

\* Searches by cancer over hero cases of both shapes.
NextCancer ==
    \E q \in CancerQueries, limit \in SearchLimits, oncology_only \in BOOLEAN :
        SearchRepurposing(q, limit, oncology_only)

SpecCancer == InitCancer /\ [][NextCancer]_vars

\* Calls of the scorer on one evidence bundle.
NextScore ==
    \/ CalculateConfidenceCall
    \/ CalculateConfidenceAgain
    \/ ExplainScoreCall

SpecScore == InitScore /\ [][NextScore]_vars

\* The scorer on a bundle and on the same bundle with more trials, more
\* citations, or one more source.
NextMore ==
    \/ \E count \in TrialCounts : MoreTrials(count)
    \/ \E count \in CitationCounts : MoreCitations(count)
    \/ \E source \in SourceNames : OneMoreSource(source)

SpecMore == InitMore /\ [][NextMore]_vars

\* Requests to /drug/{name} and /mechanism/{moa} over a loaded corpus.
NextLookup ==
    \/ \E drug_name \in LookupNames : GetDrugDetails(drug_name)
    \/ \E moa \in LookupMoas, limit \in SearchLimits :
          GetDrugsByMechanism(moa, limit)

SpecLookup == InitSearch /\ [][NextLookup]_vars

\* Queries sent to the two search endpoints.
NextQuery ==
    \/ \E q \in SentQueries, min_confidence \in MinConfidences,
          limit \in SearchLimits : DemoSearch(q, min_confidence, limit)
    \/ \E q \in SentQueries, limit \in SearchLimits : IntegratedSearch(q, limit)

\* The corpus behind the integrated endpoint holds at most one hero case:
\* the validation of q does not read it.
InitQuery ==
    /\ InitSearch
    /\ Len(hero_cases) <= 1
    /\ oncology_compounds = <<>>

SpecQuery == InitQuery /\ [][NextQuery]_vars

\* Two handlers serve refresh requests at the same time: every await of
\* refresh_token is a point where the event loop may run the other request.
\* Redis stays reachable and no time passes.
NextRefresh ==
    \/ Lifespan
    \/ \E u \in AuthUsers : LoginStart(AuthProc, u)
    \/ LoginConnect(AuthProc)
    \/ LoginStore(AuthProc)
    \/ \E p \in Procs :
        \/ \E t \in tokens : RefreshStart(p, t)
        \/ RefreshGet(p)
        \/ RefreshDelete(p)
        \/ RefreshIssue(p)
        \/ RefreshStore(p)
        \/ AuthReturn(p)

SpecRefresh == Init /\ [][NextRefresh]_vars

\* Sync jobs that share one service instance run as concurrent tasks.
NextSession ==
    \E t \in Procs :
        \/ AEnter(t)
        \/ SessionGet(t)
        \/ AExit(t)

SpecSession == Init /\ [][NextSession]_vars

(***************************************************************************)
(* RateLimitMiddleware (backend/rate_limiter.py) and the endpoints behind  *)
(* it. A path is the sequence of its segments.                             *)
(***************************************************************************)
\* RateLimitMiddleware.skip_paths
SkipPathsMutantNoHealth == {<<"docs">>, <<"openapi.json">>, <<"redoc">>}
SkipPaths == {<<"health">>, <<"docs">>, <<"openapi.json">>, <<"redoc">>}

\* str.startswith
StartsWith(path, prefix) ==
    /\ Len(prefix) <= Len(path)
    /\ SubSeq(path, 1, Len(prefix)) = prefix

\* dispatch, line 173
IsSkipped(path) == \E prefix \in SkipPaths : StartsWith(path, prefix)

\* The paths requested: the probes and documentation, the Prometheus mount
\* (main.py, app.mount("/metrics")), a public endpoint and an endpoint that
\* depends on get_current_user.
MetricsPath == <<"metrics">>
MePath == <<"api", "v1", "auth", "me">>
ReqPaths == {<<"health", "ready">>, <<"docs">>, <<"openapi.json">>,
             <<"redoc">>, MetricsPath, <<"api", "v1", "search">>, MePath}
\* The endpoints declared with Depends(get_current_user).
IsProtected(path) == path = MePath

\* The raw headers: X-Forwarded-For as its comma-separated entries (<<>> when
\* the header is absent), X-Real-IP ("" when absent); the socket peer.
XffVals == {<<>>, <<"a1">>, <<"a2", "a1">>}
RealIpVals == {"", "r1"}
Hosts == {"h1"}
\* The bearer tokens requests carry: none, or a valid access token of a user.
Bearers == {NoUser, "u2"}

\* _get_identifier
GetIdentifier(stateUser, xff, realip, host) ==
    IF stateUser # NoUser THEN stateUser
    ELSE IF xff # <<>> THEN xff[1]
    ELSE IF realip # "" THEN realip
    ELSE host

\* _get_user_tier
GetUserTier(stateUser) ==
    IF stateUser # NoUser THEN SubscriptionTier(stateUser) ELSE "basic"

\* dispatch up to the first await on Redis: the skip test, the identifier and
\* the tier from request.state (a fresh State object: no attribute user), then
\* check_rate_limit up to the clock reading.
Dispatch(p, path, bearer, xff, realip, host) ==
    /\ rq[p].pc = "idle"
    /\ \A q \in Procs : q < p => rq[q].pc # "idle"
    /\ nreq < MaxReq
    /\ nreq' = nreq + 1
    /\ LET fresh == [IdleRq EXCEPT !.via = "mw", !.path = path,
                       !.bearer = bearer, !.host = host]
           identifier == GetIdentifier(fresh.stateUser, xff, realip, host)
           tier == GetUserTier(fresh.stateUser)
       IN rq' = [rq EXCEPT ![p] =
            IF IsSkipped(path)
              THEN [fresh EXCEPT !.pc = "next"]
            ELSE IF RequestsPerHour(tier) = 0
              THEN [fresh EXCEPT !.pc = "next", !.identifier = identifier,
                      !.tier = tier, !.allowed = TRUE]
            ELSE [fresh EXCEPT !.pc = "timed", !.identifier = identifier,
                      !.tier = tier, !.cur = now]]
    /\ UNCHANGED <<redisVars, now, ticks, scripts, admLog, authVars>>
    /\ UNCHANGED extVars

\* get_current_user (dependencies.py): the user of a valid bearer token is
\* stored in request.state; without credentials the answer is 401.
\* call_next: the endpoint runs, with get_current_user when it depends on it.
CallNext(p) ==
    /\ rq[p].pc = "next"
    /\ LET r == rq[p]
       IN rq' = [rq EXCEPT ![p] =
            IF ~IsProtected(r.path) THEN [r EXCEPT !.pc = "done", !.status = 200]
            ELSE IF r.bearer = NoUser THEN [r EXCEPT !.pc = "done", !.status = 401]
            ELSE [r EXCEPT !.pc = "done", !.status = 200, !.stateUser = r.bearer]]
    /\ UNCHANGED <<redisVars, now, ticks, scripts, nreq, admLog, authVars>>
    /\ UNCHANGED extVars

\* SpecMw serves the requests one at a time, in one handler.
MwProc == CHOOSE p \in Procs : \A q \in Procs : p <= q

NextMw ==
    \/ Lifespan
    \/ \E d \in TickSteps : Tick(d)
    \/ \E path \in ReqPaths, b \in Bearers, x \in XffVals,
          ri \in RealIpVals, h \in Hosts : Dispatch(MwProc, path, b, x, ri, h)
    \/ CheckEval(MwProc)
    \/ CallNext(MwProc)
    \/ CheckReturn(MwProc)

SpecMw == Init /\ [][NextMw]_vars

\* The requests of clients that send no credentials, served one at a time:
\* every request comes from the one socket address of Hosts and chooses its
\* X-Forwarded-For and X-Real-IP headers freely.
NextAnon ==
    \/ Lifespan
    \/ \E d \in TickSteps : Tick(d)
    \/ \E path \in ReqPaths, x \in XffVals, ri \in RealIpVals, h \in Hosts :
          Dispatch(MwProc, path, NoUser, x, ri, h)
    \/ CheckEval(MwProc)
    \/ CallNext(MwProc)
    \/ CheckReturn(MwProc)

SpecAnon == Init /\ [][NextAnon]_vars

(***************************************************************************)
(* Claims about RateLimiter.check_rate_limit                               *)
(***************************************************************************)
\* A finished check that Redis answered (no fail-open), for a limited tier.
Answered(p) ==
    /\ rq[p].pc = "done"
    /\ ~rq[p].outage
    /\ RequestsPerHour(rq[p].tier) > 0

\* C1: for every identity and tier with a finite limit L, a request that
\* finds L (or more) admissions of its key inside the window ending at its
\* own timestamp is denied, and a request that finds every earlier admission
\* of its key at least window_size old is admitted. (Stated for the requests
\* Redis answers within the second of their timestamp.)
C1_LimitThenReset ==
    \A p \in Procs : (Answered(p) /\ ~rq[p].late) =>
        /\ (rq[p].prior >= RequestsPerHour(rq[p].tier) => ~rq[p].allowed)
        /\ (rq[p].fresh => rq[p].allowed)

\* C2: when two requests of one identity are checked concurrently and the
\* first of them is admitted into the last free slot, the other is denied.
C2_LastSlotOnce ==
    \A q \in Procs : (Answered(q) /\ rq[q].lastSlot) => ~rq[q].allowed

\* C8: a check during which Redis was unavailable or the script failed
\* admits the request.
C8_FailOpen ==
    \A p \in Procs : (rq[p].pc = "done" /\ rq[p].outage) => rq[p].allowed

\* C8 witness: a check of a limited tier failed open.
C8_Witness ==
    \E p \in Procs : rq[p].pc = "done" /\ rq[p].outage /\ rq[p].allowed
                        /\ RequestsPerHour(rq[p].tier) > 0 /\ scripts

(***************************************************************************)
(* Claims about RateLimitMiddleware                                        *)
(***************************************************************************)
\* A request the middleware handed to check_rate_limit.
Limited(p) == rq[p].via = "mw" /\ rq[p].identifier # NoId

\* C9: a request that carries valid authentication and is counted by the
\* rate limiter is counted under the authenticated user's identifier and that
\* user's tier.
C9_AuthenticatedIdentity ==
    \A p \in Procs : (Limited(p) /\ rq[p].bearer # NoUser /\ rq[p].added) =>
        /\ rq[p].identifier = rq[p].bearer
        /\ rq[p].tier = SubscriptionTier(rq[p].bearer)

\* The request's path lies under one of the given first segments.
PathUnder(p, firsts) == rq[p].via = "mw" /\ rq[p].path # <<>> /\ rq[p].path[1] \in firsts
\* The request was neither denied nor counted.
Bypassed(p) == rq[p].status # 429 /\ ~rq[p].added

\* C10 as claimed: requests to the health, docs and metrics paths are never
\* denied by the rate limiter and never add a timestamp to a rate window.
C10_SkipHealthDocsMetrics ==
    \A p \in Procs : PathUnder(p, {"health", "docs", "metrics"}) => Bypassed(p)

\* C10 amended: requests to the health, docs, openapi.json and redoc paths
\* are never denied by the rate limiter and never add a timestamp to a rate
\* window (the metrics path is rate-limited like any other).
C10_SkipPaths ==
    \A p \in Procs :
        PathUnder(p, {"health", "docs", "openapi.json", "redoc"}) => Bypassed(p)

\* C10 witness: a health request is answered 200 while a Basic window is full.
C10_Witness ==
    \E p \in Procs :
        /\ PathUnder(p, {"health"}) /\ rq[p].pc = "done" /\ rq[p].status = 200
        /\ \E key \in DOMAIN zset :
              /\ key[1] = "basic"
              /\ Cardinality(ZRemRangeByScore(KeyContent(key), now - WindowSize))
                    >= BasicPerHour

\* History: the admissions the script granted, under whatever key, at times
\* in the window (t - WindowSize, t].
RECURSIVE TotalOf(_)
TotalOf(entries) ==
    IF entries = {} THEN 0
    ELSE LET e == CHOOSE x \in entries : TRUE
         IN  admLog[e] + TotalOf(entries \ {e})
AdmissionsInWindow(t) ==
    TotalOf({e \in DOMAIN admLog : e[2] > t - WindowSize /\ e[2] <= t})

\* C27: an unauthenticated client at one network address cannot obtain more
\* than the Basic limit of admissions within one window by varying the
\* X-Forwarded-For and X-Real-IP headers between requests. (Under SpecAnon
\* every request is unauthenticated and comes from the same address. Stated
\* for admissions that do not share key and second, which C1 is about.)
C27_HeadersDoNotRaiseLimit ==
    (\A e \in DOMAIN admLog : admLog[e] = 1)
        => AdmissionsInWindow(now) <= RequestsPerHour("basic")

(***************************************************************************)
(* Claims about refresh-token rotation, logout and the current-user        *)
(* endpoint, under SpecAuth                                                 *)
(***************************************************************************)
\* The cache holds a live record under the key.
Holds(key) == KvLive(key)

\* A refresh request that presented a refresh token has its response.
RefreshDone(p) ==
    au[p].pc = "done" /\ au[p].op = "refresh" /\ au[p].tok.type = "refresh"

\* The refresh token of the response of handler p.
NewRefreshJti(p) == au[p].rjti

C5_LogoutRevokes ==
    \A p \in Procs :
        (RefreshDone(p) /\ au[p].tok.by = "login" /\ au[p].afterOut /\ au[p].calm)
            => au[p].status = 401

\* C6: the refresh token of a successful login (Redis reachable during the
\* login), presented for the first time, unexpired and before any logout of
\* the session, in a refresh request during which Redis is reachable, is
\* accepted: status 200 with a new access token and a new refresh token.
C6_LoginTokenRefreshes ==
    \A p \in Procs :
        (/\ RefreshDone(p) /\ au[p].tok.by = "login" /\ au[p].tok.clean
         /\ DecodeOk(au[p].tok)
         /\ au[p].first /\ ~au[p].contended /\ ~au[p].afterAnyOut /\ au[p].calm)
            => /\ au[p].status = 200
               /\ {t.type : t \in au[p].newTok} = {"access", "refresh"}

\* C7: after a logout request has succeeded, the access token used to log
\* out gets 401 from the current-user endpoint.
C7_LoggedOutTokenRejected ==
    \A p \in Procs :
        (/\ au[p].pc = "done" /\ au[p].op = "me"
         /\ au[p].tok.type = "access" /\ au[p].afterOutTok)
            => au[p].status = 401

\* C24: under every interleaving of two concurrent refresh requests that
\* present the same refresh token, at most one of the two requests succeeds.
C24_OneRefreshWins ==
    \A p, q \in Procs :
        (/\ p # q /\ RefreshDone(p) /\ RefreshDone(q)
         /\ au[p].tok.jti = au[q].tok.jti /\ au[p].contended)
            => ~(au[p].status = 200 /\ au[q].status = 200)

\* C25: if Redis is unavailable when a refresh request is processed, a
\* request presenting an otherwise valid refresh token (unexpired, issued
\* with its record, never presented before, its session not logged out) is
\* still allowed: status 200 with a new access token and a new refresh token.
C25_RefreshAllowedWithoutRedis ==
    \A p \in Procs :
        (/\ RefreshDone(p) /\ ~redisUp /\ ~au[p].calm
         /\ DecodeOk(au[p].tok) /\ au[p].tok.clean
         /\ au[p].first /\ ~au[p].contended /\ ~au[p].afterAnyOut)
            => /\ au[p].status = 200
               /\ {t.type : t \in au[p].newTok} = {"access", "refresh"}

\* C26: a token of type "refresh" is never accepted as an access
\* credential: a protected endpoint (GET /auth/me, logout) answers a request
\* whose bearer token has type "refresh" with 401.
C26_RefreshTokenNotACredential ==
    \A p \in Procs :
        (/\ au[p].pc = "done" /\ au[p].op \in {"me", "logout"}
         /\ au[p].tok.type = "refresh")
            => au[p].status = 401

(***************************************************************************)
(* Claims about RedisCache, under SpecCache                                *)
(***************************************************************************)
\* The last call was a get of a key that an earlier set stored, and the get
\* reached the server.
GetAfterSet ==
    cres.op = "get" /\ cres.reached /\ cres.key \in DOMAIN wrote

\* C11: cache round-trip: after set(k, v, ttl), a get(k) issued before ttl
\* seconds have elapsed returns a value equal to v, and a get(k) issued after
\* ttl has elapsed returns a miss (None).
C11_RoundTrip ==
    GetAfterSet =>
        LET w == wrote[cres.key]
            elapsed == cres.at - w.at
        IN  /\ elapsed < w.ttl => cres.ret = w.val
            /\ elapsed >= w.ttl => cres.ret = Nil

\* What each method returns for a miss / no-op.
NeutralOf(op) ==
    CASE op = "get"           -> Nil
      [] op = "increment"     -> Nil
      [] op = "ttl"           -> -2
      [] op = "get_keys"      -> {}
      [] op = "clear_pattern" -> 0
      [] OTHER                -> FALSE

C13_FetcherBounds ==
    \A svc \in Services : InFlight(svc) <= Permits(svc)

(***************************************************************************)
(* Claims about the parsing of responses, under SpecParse                  *)
(***************************************************************************)
\* The well-formed records of the response, in order.
WellFormed(recs) ==
    LET ok == SelectSeq(recs, LAMBDA rec : rec.shape = "ok")
    IN  [i \in DOMAIN ok |-> ok[i].id]

\* C14: in every fetcher, a structural parse error of one record skips only
\* that record: all well-formed records of the response (of every batch) are
\* still returned.
C14_SkipOnlyBadRecord ==
    parsed.by # "none" => parsed.out = WellFormed(resp)

(***************************************************************************)
(* Claims about the generated outputs, under SpecStore                     *)
(***************************************************************************)
\* C15: when the database is unavailable a write to the store still succeeds
\* and returns an artifact id (under which the artifact can be retrieved for
\* the rest of the process lifetime).
C15_WriteSurvivesDatabaseLoss ==
    (sres.op = "save" /\ ~sres.dbWasUp) =>
        /\ sres.status = 200
        /\ Len(sres.body) = 1

(***************************************************************************)
(* Claims about the search endpoint, under SpecSearch                      *)
(***************************************************************************)
\* C16: two identical search queries within the search-TTL window yield
\* equal results, and the second is served from the cache instead of being
\* computed again.
C16_SecondFromCache ==
    (sq # NoSearch /\ sq.repeat) =>
        /\ sq.r.results = sq.before
        /\ ~sq.ran

\* The hero cases whose drug name matches the query of the last response.
NameMatches ==
    SelectSeq(hero_cases,
        LAMBDA case : Contains(Lower(sq.r.query), Lower(case.drug_name)))
\* The places of the hero and of the other results in the last response.
HeroPlaces == {i \in DOMAIN sq.r.results : sq.r.results[i].source = "hero_case"}
OtherPlaces == DOMAIN sq.r.results \ HeroPlaces
\* The result at place i is made from hero case H.
ShowsAt(i, H) == i \in HeroPlaces /\ sq.r.results[i] = HeroMatch(H)

\* C19: for every query q and every hero case H whose drug name matches q, H
\* appears in the response of search(q) before any non-hero result, for every
\* value of limit.
C19_HeroAppearsFirst ==
    sq # NoSearch =>
        \A k \in DOMAIN NameMatches :
            \E i \in DOMAIN sq.r.results :
                /\ ShowsAt(i, NameMatches[k])
                /\ \A j \in OtherPlaces : i < j

\* C19 as the endpoint behaves: no non-hero result precedes a hero result,
\* and a matching hero case is missing from the response only when the
\* response is filled to its limit with hero cases.
C19_HeroFirstUpToLimit ==
    sq # NoSearch =>
        /\ \A i \in HeroPlaces, j \in OtherPlaces : i < j
        /\ \A k \in DOMAIN NameMatches :
               \/ \E i \in DOMAIN sq.r.results : ShowsAt(i, NameMatches[k])
               \/ /\ OtherPlaces = {}
                  /\ Len(sq.r.results) = sq.r.limit

\* A response that shows a name-matching hero case and a non-hero result.
C19_Witness ==
    /\ sq # NoSearch
    /\ OtherPlaces # {}
    /\ \E i \in HeroPlaces : \E k \in DOMAIN NameMatches :
           ShowsAt(i, NameMatches[k])

\* The first place in the corpus of the hero case shown at place i.
CorpusPlace(i) ==
    CHOOSE k \in DOMAIN hero_cases :
        /\ HeroMatch(hero_cases[k]) = sq.r.results[i]
        /\ \A l \in 1..(k - 1) : HeroMatch(hero_cases[l]) # sq.r.results[i]

\* C20: the hero-case results of a response are ordered by confidence_score
\* descending, and hero cases with equal confidence_score keep their corpus
\* order.
C20_HeroByConfidence ==
    sq # NoSearch =>
        \A i, j \in HeroPlaces :
            i < j =>
                /\ sq.r.results[i].confidence_score
                       >= sq.r.results[j].confidence_score
                /\ sq.r.results[i].confidence_score
                       = sq.r.results[j].confidence_score
                   => CorpusPlace(i) <= CorpusPlace(j)

(***************************************************************************)
(* Claims about the lookup endpoints, under SpecLookup                     *)
(***************************************************************************)
\* C21: a drug-details lookup for a name that is not the name of any corpus
\* drug and not the name of any hero case returns NotFound (404).
C21_UnknownNameNotFound ==
    (/\ lk # NoLookup
     /\ lk.op = "drug"
     /\ ~HasHeroCase(lk.arg)
     /\ ~HasDrugByName(lk.arg)) => lk.status = NotFound

\* C22: the mechanism-lookup endpoint returns, for a given string m, the
\* corpus drugs whose mechanism of action contains m as a substring.
C22_MechanismSubstring ==
    (lk # NoLookup /\ lk.op = "mechanism") =>
        LET holders == SelectSeq(broad_drugs,
                           LAMBDA drug : Contains(lk.arg, drug.moa))
            shown == Slice(holders, lk.limit)
        IN  IF holders = <<>> THEN lk.status = NotFound
            ELSE /\ lk.status = 200
                 /\ lk.drugs = [i \in DOMAIN shown |-> shown[i].pert_iname]

\* C23: a search request whose query is empty returns a Validation error
\* from every search endpoint; it never returns a result list.
C23_EmptyQueryRejected ==
    (dm # NoLookup /\ dm.query = <<>>) => dm.status = ValidationError

\* The query of the last search is a case-insensitive substring of one of the
\* repurposed cancers of the case: of an item of the list, or of the string.
InRepurposedCancer(case) ==
    IF case.cancer_is_list
    THEN \E i \in DOMAIN case.repurposed_cancer :
             Contains(Lower(sq.r.query), Lower(case.repurposed_cancer[i]))
    ELSE Contains(Lower(sq.r.query), Lower(case.repurposed_cancer))

\* C28: a hero case is matched by a query q whenever q is a case-insensitive
\* substring of one of its repurposed cancers, both when repurposed_cancer is
\* a list of strings and when it is a single string: the search counts at
\* least the cases whose cancers contain q among its hero matches.
C28_MatchedByCancer ==
    sq # NoSearch =>
        sq.r.hero_cases_found >=
            Cardinality({i \in DOMAIN hero_cases :
                             InRepurposedCancer(hero_cases[i])})

(***************************************************************************)
(* Claims about the session of a shared fetcher, under SpecSession         *)
(***************************************************************************)
\* C29: while any task is inside an `async with` block of a shared fetcher
\* service instance, that service's HTTP session stays open and is not
\* replaced: it is the session the task's entry created, and it is not closed.
C29_SessionKept ==
    \A t \in Procs :
        task[t].pc = "in" => (session = task[t].mine /\ session \notin closed)

Example ==
    [phase |-> <<"P", "h", "a", "s", "e", " ", "2">>,
     clinical_trials |-> 20, pubmed_citations |-> 30,
     sources |-> <<<<"r", "e", "p", "o", "D", "B">>,
                   <<"C", "l", "i", "n", "i", "c", "a", "l", "T", "r", "i", "a", "l", "s", ".", "g", "o", "v">>,
                   <<"R", "e", "D", "O", "_", "D", "B">>>>,
     pathways |-> <<1, 2, 3>>]
ExampleScored ==
    /\ evidence = Example
    /\ first # NotScored
    /\ explained # NotScored
\* The five sub-scores, in hundredths, as explain_score reports them.
SubScores ==
    LET b == explained.out.breakdown
    IN  <<b.clinical_phase.score, b.trial_count.score, b.citations.score,
          b.data_sources.score, b.mechanism.score>>

\* C18: the example bundle has sub-scores (0.65, 0.70, 0.55, 0.90, 0.85) and
\* scores a confidence of about 0.61 with tier Moderate.
C18_ExampleModerate ==
    ExampleScored =>
        /\ SubScores = <<65, 70, 55, 90, 85>>
        /\ explained.out.overall_score = 61
        /\ explained.out.tier = "Moderate"

\* C18 as the scorer computes it: the sub-scores are as stated, and their
\* weighted sum is 0.26 + 0.14 + 0.0825 + 0.135 + 0.085 = 0.7025, which
\* rounds to 0.70 and has tier High.
C18_ExampleHigh ==
    ExampleScored =>
        /\ SubScores = <<65, 70, 55, 90, 85>>
        /\ 10000 * first.confidence = 7025 * Full
        /\ explained.out.overall_score = 70
        /\ explained.out.tier = "High"

C18_Witness ==
    /\ ExampleScored
    /\ again # NotScored

\* C30: adding evidence never lowers confidence: with all other fields
\* equal, increasing trial_count, increasing citation_count, or appending one
\* more source to the sources list yields a confidence greater than or equal
\* to the previous one.
C30_MoreEvidenceNotLower ==
    more # NotScored => more.after >= more.before

====
